---- MODULE Spec2Model ----
(***************************************************************************)
(* gradeflow engine: the sandboxed script executor (sandbox.py), the rule  *)
(* registry and the rule processors (rules/), and the grading orchestrator *)
(* (core.py) as one state machine.                                         *)
(*                                                                         *)
(* The Python process is single-threaded.  The only asynchronous event is  *)
(* the SIGALRM armed by time_limit: its delivery is the action AlarmFires, *)
(* enabled wherever an alarm is pending.                                   *)
(***************************************************************************)
EXTENDS Integers, Sequences, FiniteSets, TLC

VARIABLES
    env,        \* what the container probes and the kernel see (fixed per run)
    handler,    \* the process's SIGALRM handler
    alarm,      \* seconds of the pending signal.alarm, 0 = none pending
    rlimit,     \* the process's RLIMIT_AS, <<soft, hard>>
    pc,         \* control location of the single thread
    call,       \* arguments of the current execute_programmable_rule call
    loc,        \* locals of that call (context-manager state, pending exception)
    ret,        \* what the last execute_programmable_rule call returned or raised
    hist,       \* history of the current call (read by the properties only)
    ncalls,     \* number of execute_programmable_rule calls started so far
    registry,   \* RuleRegistry: rule type -> [processor, model]
    regcall,    \* the last RuleRegistry.register call and how it ended
    made,       \* the last ConditionalRule(...) construction and how it ended
    inp,        \* arguments of grade(): rubric, submissions, progress_callback
    g           \* locals of grade() and _grade_single_submission()

vars == <<env, handler, alarm, rlimit, pc, call, loc, ret, hist, ncalls, registry, regcall,
          made, inp, g>>

----------------------------------------------------------------------------
(* Bounds of the model *)

MaxCalls == 2          \* direct calls of execute_programmable_rule in one run
MaxRuns == 2           \* grade() calls on the same rubric and submissions

(* Program constants *)

SCRIPT_MAX_SIZE_BYTES == 50000
SCRIPT_MAX_LINES == 1000
DEFAULT_TIMEOUT_MS == 5000
DEFAULT_MEMORY_MB == 50

\* resource.RLIM_INFINITY as Python reports it
RLIM_INFINITY == -1

----------------------------------------------------------------------------
(* Exceptions are modelled by their class name; "none" = no exception.     *)

NoExc == "none"
ValueErrorK == "ValueError"
SandboxExecutionError == "SandboxExecutionError"
SandboxTimeoutError == "SandboxTimeoutError"
\* an Exception subclass raised by the script's own code: ZeroDivisionError,
\* TypeError, NameError, MemoryError ...
ScriptRuntimeError == "ScriptRuntimeError"

SIG_DFL == "SIG_DFL"
TimeoutHandler == "_timeout_handler"

----------------------------------------------------------------------------
(* Scripts.  A script is described by what the sandbox looks at:           *)
(*   blank      empty or whitespace-only text                              *)
(*   size       len(script)                                                *)
(*   newlines   script.count("\n")                                         *)
(*   parses     compile(script) succeeds                                   *)
(*   restricted compile_restricted_exec reports no errors                  *)
(*   run        what the byte code does when executed:                     *)
(*                "finish"     runs to its end                             *)
(*                "raise"      raises a runtime exception                  *)
(*                "loop"       while True: pass                            *)
(*                "loop_catch" while True: try: ... except Exception: pass *)
(*   writes     the script assigns to student_answers[...], question_id    *)
(*              and answer before it does anything else                    *)
(*   points     the value left in points_awarded                           *)
(*   feedback   the value left in feedback                                 *)

Num(n) == [t |-> "num", v |-> n]
NoneV == [t |-> "none", v |-> 0]
NonNumeric == [t |-> "str", v |-> 0]

Script(run, points, fb) ==
    [blank |-> FALSE, size |-> 40, newlines |-> 2, parses |-> TRUE,
     restricted |-> TRUE, run |-> run, writes |-> FALSE, points |-> points,
     feedback |-> fb]

S_full == Script("finish", Num(2), "ok")
S_half == Script("finish", Num(1), "partial")
S_over == Script("finish", Num(9), "generous")
S_negative == Script("finish", Num(-5), "minus")
S_nonnumeric == Script("finish", NonNumeric, "text")
S_none == Script("finish", NoneV, "")
S_raise == Script("raise", Num(0), "")
S_loop == Script("loop", Num(0), "")
S_loop_catch == Script("loop_catch", Num(0), "")
S_blank == [Script("finish", Num(0), "") EXCEPT !.blank = TRUE, !.size = 0, !.newlines = 0]
S_big == [S_full EXCEPT !.size = SCRIPT_MAX_SIZE_BYTES + 1]
S_long == [S_full EXCEPT !.newlines = SCRIPT_MAX_LINES]
S_syntax == [S_full EXCEPT !.parses = FALSE, !.restricted = FALSE]
S_forbidden == [S_full EXCEPT !.restricted = FALSE]
S_writes == [S_full EXCEPT !.writes = TRUE]
S_writes_raise == [S_raise EXCEPT !.writes = TRUE]

Scripts ==
    {S_full, S_half, S_over, S_negative, S_nonnumeric, S_none, S_raise, S_loop,
     S_loop_catch, S_blank, S_big, S_long, S_syntax, S_forbidden, S_writes,
     S_writes_raise}

----------------------------------------------------------------------------
(* The environment: container probes and the kernel's setrlimit rule.      *)

\* _is_running_in_container without the /proc/1/cgroup probe
_is_running_in_container_no_cgroup(e) ==
    \/ e.dockerenv
    \/ e.env_vars

\* _is_running_in_container: /.dockerenv exists, or a container environment
\* variable is set, or /proc/1/cgroup is readable and names a container
\* runtime; an unreadable or absent cgroup file counts as "not a container".
_is_running_in_container(e) ==
    \/ e.dockerenv
    \/ e.env_vars
    \/ e.cgroup = "container"

\* a <= b on resource limits, RLIM_INFINITY being the largest
LimitLeq(a, b) ==
    \/ b = RLIM_INFINITY
    \/ (a # RLIM_INFINITY /\ a <= b)

\* resource.setrlimit(RLIMIT_AS, new) succeeds: soft <= hard, and the hard
\* limit is raised only by a privileged process; otherwise it raises
\* ValueError/OSError, which is what the except clauses of memory_limit catch.
setrlimit_ok(e, cur, new) ==
    /\ LimitLeq(new[1], new[2])
    /\ (e.privileged \/ LimitLeq(new[2], cur[2]))

----------------------------------------------------------------------------
(* Pure helpers of sandbox.py *)

\* _validate_script: the exception it raises, NoExc when the script passes
_validate_script(s) ==
    IF s.blank THEN ValueErrorK
    ELSE IF s.size > SCRIPT_MAX_SIZE_BYTES THEN ValueErrorK
    ELSE IF s.newlines + 1 > SCRIPT_MAX_LINES THEN ValueErrorK
    ELSE IF ~s.parses THEN SandboxExecutionError
    ELSE NoExc

\* PreChecks without the test of compile_result.errors
PreChecks_ignoring_compile_errors(c) ==
    IF c.timeout_ms <= 0 THEN ValueErrorK
    ELSE IF c.memory_mb <= 0 THEN ValueErrorK
    ELSE IF _validate_script(c.script) # NoExc THEN _validate_script(c.script)
    ELSE NoExc

\* the checks of execute_programmable_rule made before its try block, in
\* order; what they raise propagates to the caller unchanged
PreChecks(c) ==
    IF c.timeout_ms <= 0 THEN ValueErrorK
    ELSE IF c.memory_mb <= 0 THEN ValueErrorK
    ELSE IF _validate_script(c.script) # NoExc THEN _validate_script(c.script)
    ELSE IF ~c.script.restricted THEN SandboxExecutionError
    ELSE NoExc

\* _extract_and_validate_results: float(points_awarded) (None reads as 0.0, a
\* non-numeric value makes float() raise), str(feedback), negative points
\* replaced by 0.0 together with the feedback
_extract_and_validate_results(s) ==
    IF s.points.t = "str"
    THEN [exc |-> ValueErrorK, points |-> 0, feedback |-> ""]
    ELSE LET p == IF s.points.t = "none" THEN 0 ELSE s.points.v
         IN  IF p < 0
             THEN [exc |-> NoExc, points |-> 0,
                   feedback |-> "Invalid negative points, defaulting to 0"]
             ELSE [exc |-> NoExc, points |-> p, feedback |-> s.feedback]

\* ExceptClauses without the wrapping of other exceptions
ExceptClauses_unwrapped(e) ==
    IF e = SandboxTimeoutError THEN SandboxTimeoutError
    ELSE IF e = SandboxExecutionError THEN SandboxExecutionError
    ELSE e

\* the except clauses of execute_programmable_rule: the timeout and the
\* sandbox error are re-raised, any other Exception is wrapped
ExceptClauses(e) ==
    IF e = SandboxTimeoutError THEN SandboxTimeoutError
    ELSE IF e = SandboxExecutionError THEN SandboxExecutionError
    ELSE SandboxExecutionError

\* signal.alarm(int(timeout_ms / 1000.0) + 1)
AlarmSeconds(timeout_ms) == (timeout_ms \div 1000) + 1

\* memory_mb * 1024 * 1024
MemoryBytes(memory_mb) == memory_mb * 1024 * 1024

----------------------------------------------------------------------------
(* One call of execute_programmable_rule *)

\* A dict is a mutable object.  student_answers of a call is the caller's
\* dict itself: what is written through a reference to it is seen by the
\* caller.  A binding of the script's globals is [shared, value]: shared says
\* that the binding refers to the caller's dict, not to a dict of its own.
NoAnswers == [q \in {} |-> ""]

NoCall == [script |-> S_blank, student_answers |-> NoAnswers, question_id |-> "",
           answer |-> "", timeout_ms |-> 0, memory_mb |-> 0,
           strict_limits |-> FALSE, caller |-> "none"]

\* dict(student_answers) with the caller's dict bound by reference instead
dict_by_reference(d) == [shared |-> TRUE, value |-> d]

\* dict(student_answers): a new dict with the same items
dict(d) == [shared |-> FALSE, value |-> d]

\* _create_restricted_globals 342-352: the bindings a script can reach
_create_restricted_globals(student_answers, question_id, answer) ==
    [student_answers |-> dict(student_answers), question_id |-> question_id,
     answer |-> answer]

NoGlobals == _create_restricted_globals(NoAnswers, "", "")

\* what a writing script stores
Overwritten == "overwritten"

\* student_answers[k] = ... for every key and for question_id
WriteAll(d, qid) == [q \in DOMAIN d \cup {qid} |-> Overwritten]

NoLoc == [old_handler |-> SIG_DFL, old_limit |-> <<0, 0>>, limit_set |-> FALSE,
          exc |-> NoExc, globals |-> NoGlobals]

NoRet == [kind |-> "none", exc |-> NoExc, points |-> 0, feedback |-> ""]

Returned(p, fb) == [kind |-> "return", exc |-> NoExc, points |-> p, feedback |-> fb]
Raised(e) == [kind |-> "raise", exc |-> e, points |-> 0, feedback |-> ""]

\* history of one call, for the properties
NewHist(h, l) ==
    [entry_handler |-> h,       \* SIGALRM handler when the call was entered
     entry_rlimit |-> l,        \* RLIMIT_AS when the call was entered
     rlimit_ops |-> 0,          \* getrlimit/setrlimit calls made by the call
     limit_changed |-> FALSE,   \* memory_limit lowered the limit on entry
     set_failed |-> FALSE,      \* the ceiling could not be applied
     restore_failed |-> FALSE,  \* the ceiling could not be restored
     executed |-> FALSE,        \* exec(byte_code) was reached
     armed |-> 0,               \* seconds the alarm was armed with
     fired |-> "no",            \* where the alarm went off
     script_exc |-> FALSE]      \* the script's own code raised

\* the caller's call statement
StartCall(script, student_answers, question_id, answer, timeout_ms, memory_mb, strict, who) ==
    /\ call' = [script |-> script, student_answers |-> student_answers,
                question_id |-> question_id, answer |-> answer,
                timeout_ms |-> timeout_ms,
                memory_mb |-> memory_mb, strict_limits |-> strict, caller |-> who]
    /\ loc' = NoLoc
    /\ ret' = NoRet
    /\ hist' = NewHist(handler, rlimit)
    /\ ncalls' = ncalls + 1
    /\ pc' = "epr_enter"

\* sandbox.py 546-568: input checks, _validate_script, restricted compile
execute_programmable_rule_enter ==
    /\ pc = "epr_enter"
    /\ IF PreChecks(call) # NoExc
       THEN /\ ret' = Raised(PreChecks(call))
            /\ pc' = "epr_done"
            /\ loc' = loc
       ELSE /\ ret' = ret
            /\ loc' = [loc EXCEPT !.globals = _create_restricted_globals(
                                       call.student_answers, call.question_id, call.answer)]
            /\ pc' = "ml_enter"
    /\ UNCHANGED <<env, handler, alarm, rlimit, call, hist, ncalls, registry, regcall, made, inp, g>>

\* memory_limit up to its yield
memory_limit_enter ==
    /\ pc = "ml_enter"
    /\ IF call.memory_mb <= 0
       THEN /\ loc' = [loc EXCEPT !.exc = ValueErrorK]
            /\ pc' = "epr_exit"
            /\ UNCHANGED <<rlimit, hist>>
       ELSE IF _is_running_in_container(env)
       THEN /\ pc' = "tl_enter"
            /\ UNCHANGED <<rlimit, loc, hist>>
       ELSE LET b == MemoryBytes(call.memory_mb)
                new == <<b, b>>
            IN  IF setrlimit_ok(env, rlimit, new)
                THEN /\ rlimit' = new
                     /\ loc' = [loc EXCEPT !.old_limit = rlimit, !.limit_set = TRUE]
                     /\ hist' = [hist EXCEPT !.rlimit_ops = @ + 2,
                                             !.limit_changed = (new # rlimit)]
                     /\ pc' = "tl_enter"
                ELSE /\ rlimit' = rlimit
                     /\ hist' = [hist EXCEPT !.rlimit_ops = @ + 2, !.set_failed = TRUE]
                     /\ IF call.strict_limits
                        THEN /\ loc' = [loc EXCEPT !.old_limit = rlimit,
                                                   !.exc = SandboxExecutionError]
                             /\ pc' = "epr_exit"
                        ELSE /\ loc' = [loc EXCEPT !.old_limit = rlimit]
                             /\ pc' = "tl_enter"
    /\ UNCHANGED <<env, handler, alarm, call, ret, ncalls, registry, regcall, made, inp, g>>

\* time_limit up to signal.alarm(...): sandbox.py 403-412
time_limit_enter ==
    /\ pc = "tl_enter"
    /\ IF call.timeout_ms <= 0
       THEN /\ loc' = [loc EXCEPT !.exc = ValueErrorK]
            /\ pc' = "ml_exit"
            /\ UNCHANGED <<handler, alarm, hist>>
       ELSE /\ loc' = [loc EXCEPT !.old_handler = handler]
            /\ handler' = TimeoutHandler
            /\ alarm' = AlarmSeconds(call.timeout_ms)
            /\ hist' = [hist EXCEPT !.armed = AlarmSeconds(call.timeout_ms)]
            /\ pc' = "tl_armed"
    /\ UNCHANGED <<env, rlimit, call, ret, ncalls, registry, regcall, made, inp, g>>

\* time_limit 413-416: the debug log, then try: yield -- the body starts
time_limit_yield ==
    /\ pc = "tl_armed"
    /\ pc' = "exec"
    /\ hist' = [hist EXCEPT !.executed = TRUE]
    /\ UNCHANGED <<env, handler, alarm, rlimit, call, loc, ret, ncalls, registry, regcall, made, inp, g>>

\* the assignments of a writing script, on the globals of the call ...
GlobalsAfterRun(c, l) ==
    IF c.script.writes
    THEN [student_answers |-> [l.globals.student_answers EXCEPT
                                   !.value = WriteAll(@, c.question_id)],
          question_id |-> Overwritten, answer |-> Overwritten]
    ELSE l.globals

\* ... and on the caller's dict, when the globals refer to it
CallerAnswersAfterRun(c, l) ==
    IF c.script.writes /\ l.globals.student_answers.shared
    THEN WriteAll(c.student_answers, c.question_id)
    ELSE c.student_answers

\* exec(byte_code, restricted_globals) runs to the end of the script
script_finishes ==
    /\ pc = "exec"
    /\ call.script.run = "finish"
    /\ loc' = [loc EXCEPT !.globals = GlobalsAfterRun(call, loc)]
    /\ call' = [call EXCEPT !.student_answers = CallerAnswersAfterRun(call, loc)]
    /\ pc' = "tl_exit"
    /\ UNCHANGED <<env, handler, alarm, rlimit, ret, hist, ncalls, registry, regcall, made, inp, g>>

\* the script's own code raises (division by zero, type error, ...)
script_raises ==
    /\ pc = "exec"
    /\ call.script.run = "raise"
    /\ loc' = [loc EXCEPT !.exc = ScriptRuntimeError,
                          !.globals = GlobalsAfterRun(call, loc)]
    /\ call' = [call EXCEPT !.student_answers = CallerAnswersAfterRun(call, loc)]
    /\ hist' = [hist EXCEPT !.script_exc = TRUE]
    /\ pc' = "tl_exit"
    /\ UNCHANGED <<env, handler, alarm, rlimit, ret, ncalls, registry, regcall, made, inp, g>>

\* one more iteration of an unbounded loop
script_loops ==
    /\ pc = "exec"
    /\ call.script.run \in {"loop", "loop_catch"}
    /\ UNCHANGED vars

\* SIGALRM is delivered: _timeout_handler raises SandboxTimeoutError in
\* whatever frame is executing.
\*   tl_armed  after signal.alarm, before the try of time_limit: the
\*             exception leaves time_limit without its finally
\*   exec      in the script: an except clause of the script that matches
\*             Exception swallows it, otherwise it unwinds into the finally
\*   tl_exit   in the finally of time_limit, before signal.alarm(0) has
\*             returned: the rest of the finally is skipped
AlarmFires ==
    /\ alarm > 0
    /\ handler = TimeoutHandler
    /\ pc \in {"tl_armed", "exec", "tl_exit"}
    /\ alarm' = 0
    /\ IF pc = "exec" /\ call.script.run = "loop_catch"
       THEN /\ pc' = "exec"
            /\ loc' = loc
            /\ hist' = [hist EXCEPT !.fired = "swallowed"]
       ELSE /\ loc' = [loc EXCEPT !.exc = SandboxTimeoutError]
            /\ pc' = IF pc = "exec" THEN "tl_exit" ELSE "ml_exit"
            /\ hist' = [hist EXCEPT !.fired = pc]
    /\ UNCHANGED <<env, handler, rlimit, call, ret, ncalls, registry, regcall, made, inp, g>>

\* the finally of time_limit: signal.alarm(0); signal.signal(SIGALRM, old_handler)
time_limit_exit ==
    /\ pc = "tl_exit"
    /\ alarm' = 0
    /\ handler' = loc.old_handler
    /\ pc' = "ml_exit"
    /\ UNCHANGED <<env, rlimit, call, loc, ret, hist, ncalls, registry, regcall, made, inp, g>>

\* ShouldRestore without the limit_set test
ShouldRestore_unconditional(l) == TRUE

\* sandbox.py 484: if limit_set and old_limit is not None
ShouldRestore(l) == l.limit_set /\ l.old_limit # NoLoc.old_limit

\* memory_limit after its yield: sandbox.py 480-495 (in a container the
\* generator just returns; limit_set is false there)
memory_limit_exit ==
    /\ pc = "ml_exit"
    /\ IF ~ShouldRestore(loc)
       THEN UNCHANGED <<rlimit, loc, hist>>
       ELSE IF setrlimit_ok(env, rlimit, loc.old_limit)
       THEN /\ rlimit' = loc.old_limit
            /\ hist' = [hist EXCEPT !.rlimit_ops = @ + 1]
            /\ loc' = loc
       ELSE /\ rlimit' = rlimit
            /\ hist' = [hist EXCEPT !.rlimit_ops = @ + 1, !.restore_failed = TRUE]
            /\ loc' = [loc EXCEPT !.exc = SandboxExecutionError]
    /\ pc' = "epr_exit"
    /\ UNCHANGED <<env, handler, alarm, call, ret, ncalls, registry, regcall, made, inp, g>>

\* sandbox.py 577-590: extract the results, or the except clauses
execute_programmable_rule_exit ==
    /\ pc = "epr_exit"
    /\ LET r == _extract_and_validate_results(call.script)
       IN  ret' = IF loc.exc # NoExc THEN Raised(ExceptClauses(loc.exc))
                  ELSE IF r.exc # NoExc THEN Raised(ExceptClauses(r.exc))
                  ELSE Returned(r.points, r.feedback)
    /\ pc' = "epr_done"
    /\ UNCHANGED <<env, handler, alarm, rlimit, call, loc, hist, ncalls, registry, regcall, made, inp, g>>

Sandbox ==
    \/ execute_programmable_rule_enter
    \/ memory_limit_enter
    \/ time_limit_enter
    \/ time_limit_yield
    \/ script_finishes
    \/ script_raises
    \/ script_loops
    \/ AlarmFires
    \/ time_limit_exit
    \/ memory_limit_exit
    \/ execute_programmable_rule_exit

----------------------------------------------------------------------------
(* Data model: models.py *)

NoneStr == "None"

\* Submission.answers.get(question_id, "")
AnswerOf(sub, qid) == IF qid \in DOMAIN sub.answers THEN sub.answers[qid] ELSE ""

GradeDetail(qid, student_answer, correct_answer, points, max_points, is_correct, rule_applied, fb) ==
    [question_id |-> qid, student_answer |-> student_answer,
     correct_answer |-> correct_answer, points_awarded |-> points,
     max_points |-> max_points, is_correct |-> is_correct,
     rule_applied |-> rule_applied, feedback |-> fb]

\* what a processor returns: None, one GradeDetail, or a list of them
NoneR == [t |-> "none", ds |-> <<>>]
One(d) == [t |-> "one", ds |-> <<d>>]
ListR(ds) == [t |-> "list", ds |-> ds]

\* evaluation of a rule, as far as the script outcomes obtained so far
\* (outs) determine it:
\*   st = "val"   the processor returned res, having consumed outs[1..k-1]
\*   st = "exc"   the processor raised exc
\*   st = "need"  the evaluation reached a call of execute_programmable_rule
\*                whose outcome is not known yet: req is the call
NoReq == [script |-> S_blank, question_id |-> "", answer |-> ""]
Val(res, k) == [st |-> "val", res |-> res, exc |-> NoExc, req |-> NoReq, k |-> k]
Exc(e, k) == [st |-> "exc", res |-> NoneR, exc |-> e, req |-> NoReq, k |-> k]
Need(req, k) == [st |-> "need", res |-> NoneR, exc |-> NoExc, req |-> req, k |-> k]

RECURSIVE SumPoints(_)
SumPoints(ds) == IF ds = <<>> THEN 0 ELSE ds[1].points_awarded + SumPoints(Tail(ds))

RECURSIVE SumMax(_)
SumMax(ds) == IF ds = <<>> THEN 0 ELSE ds[1].max_points + SumMax(Tail(ds))

Max2(a, b) == IF a >= b THEN a ELSE b
Min2(a, b) == IF a <= b THEN a ELSE b

RECURSIVE MaxPointsAwarded(_)
MaxPointsAwarded(ds) ==
    IF Len(ds) = 1 THEN ds[1].points_awarded
    ELSE Max2(ds[1].points_awarded, MaxPointsAwarded(Tail(ds)))

RECURSIVE MaxMaxPoints(_)
MaxMaxPoints(ds) ==
    IF Len(ds) = 1 THEN ds[1].max_points
    ELSE Max2(ds[1].max_points, MaxMaxPoints(Tail(ds)))

CountCorrect(ds) == Cardinality({i \in 1..Len(ds) : ds[i].is_correct})

----------------------------------------------------------------------------
(* RuleRegistry: rules/registry.py *)

\* the registrations made when the rules package is imported
StandardRegistry ==
    [t \in {"NUMERIC_RANGE", "EXACT_MATCH", "PROGRAMMABLE", "COMPOSITE",
            "CONDITIONAL", "ASSUMPTION_SET"} |->
        CASE t = "NUMERIC_RANGE" -> [processor |-> "process_numeric_range", model |-> "NumericRangeRule"]
          [] t = "EXACT_MATCH" -> [processor |-> "process_exact_match", model |-> "ExactMatchRule"]
          [] t = "PROGRAMMABLE" -> [processor |-> "process_programmable", model |-> "ProgrammableRule"]
          [] t = "COMPOSITE" -> [processor |-> "process_composite", model |-> "CompositeRule"]
          [] t = "CONDITIONAL" -> [processor |-> "process_conditional", model |-> "ConditionalRule"]
          [] t = "ASSUMPTION_SET" -> [processor |-> "process_assumption_set", model |-> "AssumptionSetRule"]]

\* RuleRegistry.get_processor raises ValueError for an unregistered type
get_processor_raises(reg, rule_type) == rule_type \notin DOMAIN reg
get_processor(reg, rule_type) == reg[rule_type].processor

\* RuleRegistry.get_model, for a registered type
get_model(reg, rule_type) == reg[rule_type].model

\* _processors and _rule_types as the class body leaves them
EmptyRegistry == [t \in {} |-> [processor |-> "", model |-> ""]]

NoRegCall ==
    [rule_type |-> "", processor |-> "", model |-> "", exc |-> NoExc,
     was_registered |-> FALSE, old_processor |-> "", old_model |-> ""]

\* callables offered to register: name and number of parameters
Processors ==
    {[name |-> "process_exact_match", params |-> 2],
     [name |-> "process_programmable", params |-> 2],
     [name |-> "process_other", params |-> 2],
     [name |-> "process_without_submission", params |-> 1],
     [name |-> "process_with_context", params |-> 3]}

RuleTypes == {"EXACT_MATCH", "PROGRAMMABLE"}
Models == {"ExactMatchRule", "ProgrammableRule"}

\* RuleRegistry.register(rule_type, processor, model): registry.py 13-44.
\* regcall records the call, its outcome and what was registered before it.
register ==
    \E rule_type \in RuleTypes, processor \in Processors, model \in Models :
        /\ pc = "idle"
        /\ regcall' = [rule_type |-> rule_type, processor |-> processor.name,
                       model |-> model,
                       exc |-> IF processor.params # 2 THEN ValueErrorK ELSE NoExc,
                       was_registered |-> rule_type \in DOMAIN registry,
                       old_processor |-> IF rule_type \in DOMAIN registry
                                         THEN get_processor(registry, rule_type) ELSE "",
                       old_model |-> IF rule_type \in DOMAIN registry
                                     THEN get_model(registry, rule_type) ELSE ""]
        /\ registry' = IF processor.params # 2 THEN registry
                       ELSE [t \in DOMAIN registry \cup {rule_type} |->
                                IF t = rule_type
                                THEN [processor |-> processor.name, model |-> model]
                                ELSE registry[t]]
        /\ UNCHANGED <<env, handler, alarm, rlimit, pc, call, loc, ret, hist, ncalls, made, inp, g>>

----------------------------------------------------------------------------
(* ConditionalRule(if_rules=..., then_rules=..., if_aggregation=...):      *)
(* rules/conditional/model.py.  A dict is a sequence of [key, rule] in     *)
(* insertion order, its keys distinct.                                     *)

Questions == {"q1", "q2", "q3"}

\* the dict with the given keys, each holding a rule authored for its key
DictOf(keys) ==
    LET ks == SelectSeq(<<"q1", "q2", "q3">>, LAMBDA q : q \in keys)
    IN  [i \in 1..Len(ks) |->
            [key |-> ks[i],
             rule |-> [type |-> "NUMERIC_RANGE", question_id |-> ks[i], min_value |-> 4,
                       max_value |-> 6, max_points |-> 1]]]

Keys(v) == {v[i].key : i \in 1..Len(v)}

\* validate_if_rules (44-50): the error it raises, NoExc when it returns v
validate_if_rules(v) == IF Len(v) < 1 THEN ValueErrorK ELSE NoExc

\* validate_then_rules without the overlap test
validate_then_rules_any_keys(v, data) == IF Len(v) < 1 THEN ValueErrorK ELSE NoExc

\* validate_then_rules (52-65); data is info.data, the fields validated so
\* far: if_rules is in it only when validate_if_rules returned
validate_then_rules(v, data) ==
    IF Len(v) < 1 THEN ValueErrorK
    ELSE LET if_rules == IF "if_rules" \in DOMAIN data THEN data.if_rules ELSE <<>>
         IN  IF Keys(v) \cap Keys(if_rules) # {} THEN ValueErrorK ELSE NoExc

NoMade ==
    [called |-> FALSE, if_rules |-> <<>>, then_rules |-> <<>>, exc |-> NoExc,
     rule |-> [type |-> "None"]]

\* ConditionalRule(...): pydantic runs the field validators in field order
\* and raises ValidationError when one of them raised; otherwise the rule
\* exists.
construct_conditional ==
    \E if_keys \in SUBSET Questions, then_keys \in SUBSET Questions,
       if_aggregation \in {"AND", "OR"} :
        LET if_rules == DictOf(if_keys)
            then_rules == DictOf(then_keys)
            e1 == validate_if_rules(if_rules)
            data == IF e1 = NoExc THEN [if_rules |-> if_rules,
                                        if_aggregation |-> if_aggregation]
                    ELSE [if_aggregation |-> if_aggregation]
            e2 == validate_then_rules(then_rules, data)
            failed == e1 # NoExc \/ e2 # NoExc
        IN  /\ pc = "idle"
            /\ made' = [called |-> TRUE, if_rules |-> if_rules, then_rules |-> then_rules,
                        exc |-> IF failed THEN "ValidationError" ELSE NoExc,
                        rule |-> IF failed THEN [type |-> "None"]
                                 ELSE [type |-> "CONDITIONAL", if_rules |-> if_rules,
                                       if_aggregation |-> if_aggregation,
                                       then_rules |-> then_rules]]
            /\ UNCHANGED <<env, handler, alarm, rlimit, pc, call, loc, ret, hist, ncalls,
                           registry, regcall, inp, g>>

----------------------------------------------------------------------------
(* Leaf rules *)

\* float(s) for the answers of the model; anything else does not parse
_try_parse_float(s) ==
    CASE s = "5" -> Num(5)
      [] s = "7" -> Num(7)
      [] OTHER -> NoneV

\* process_numeric_range
process_numeric_range(rule, sub) ==
    LET raw == AnswerOf(sub, rule.question_id)
        v == _try_parse_float(raw)
        range == "range"
    IN  IF raw = ""
        THEN GradeDetail(rule.question_id, raw, range, 0, rule.max_points, FALSE,
                         NoneStr, "No answer provided")
        ELSE IF v.t = "none"
        THEN GradeDetail(rule.question_id, raw, range, 0, rule.max_points, FALSE,
                         NoneStr, "Invalid numeric value")
        ELSE IF rule.min_value <= v.v /\ v.v <= rule.max_value
        THEN GradeDetail(rule.question_id, raw, range, rule.max_points, rule.max_points,
                         TRUE, NoneStr, "Within acceptable range")
        ELSE GradeDetail(rule.question_id, raw, range, 0, rule.max_points, FALSE,
                         NoneStr, "Outside acceptable range")

\* process_exact_match begins with "from ..base import create_grade_detail,
\* get_student_answer"; rules/base.py defines no get_student_answer, so the
\* import statement raises ImportError before anything is compared
ImportErrorK == "ImportError"
process_exact_match_raises == ImportErrorK

----------------------------------------------------------------------------
(* Programmable rule: rules/programmable/processor.py *)

\* _clamp_points
_clamp_points(points, max_points) == Max2(0, Min2(points, max_points))

\* process_programmable, given the outcome o of its execute_programmable_rule
\* call: the try block (70-82) and the except clause (84-95)
ProgrammableDetail(rule, student_answer, o) ==
    IF o.kind = "return"
    THEN LET p == _clamp_points(o.points, rule.max_points)
         IN  GradeDetail(rule.question_id, student_answer, NoneStr, p, rule.max_points,
                         p >= rule.max_points,
                         NoneStr, IF o.feedback = "" THEN NoneStr ELSE o.feedback)
    ELSE GradeDetail(rule.question_id, student_answer, NoneStr, 0, rule.max_points,
                     FALSE, NoneStr, "Grading script error")

\* the exceptions process_programmable catches from the sandbox
ProgrammableCatches(e) == e \in {SandboxExecutionError, SandboxTimeoutError}

process_programmable(rule, sub, outs, k) ==
    LET student_answer == AnswerOf(sub, rule.question_id)
    IN  IF rule.code.blank THEN Exc(ValueErrorK, k)
        ELSE IF k > Len(outs)
        THEN Need([script |-> rule.code, question_id |-> rule.question_id,
                   answer |-> student_answer], k)
        ELSE IF outs[k].kind = "raise" /\ ~ProgrammableCatches(outs[k].exc)
        THEN Exc(outs[k].exc, k + 1)
        ELSE Val(One(ProgrammableDetail(rule, student_answer, outs[k])), k + 1)


----------------------------------------------------------------------------
(* Composite, Conditional and AssumptionSet rules.  They dispatch their    *)
(* sub-rules through the registry, so the evaluation is recursive.         *)

\* model_copy that hands back the rule it was called on, as the fallback of
\* composite/processor.py 203-206 does
model_copy_as_authored(rule, question_id) == [copy |-> rule, self |-> rule]

\* sub_rule.model_copy(update={"question_id": question_id}), processor.py 202:
\* copy is the object returned, whose question_id attribute is set (added when
\* the model has no such field, update being applied without validation);
\* self is the object the method was called on, which it does not assign to
model_copy(rule, question_id) ==
    [copy |-> [f \in DOMAIN rule \cup {"question_id"} |->
                  IF f = "question_id" THEN question_id ELSE rule[f]],
     self |-> rule]

RECURSIVE Dispatch(_, _, _, _, _)
RECURSIVE CompositeSubs(_, _, _, _, _, _, _)
RECURSIVE ConditionalGuards(_, _, _, _, _, _, _)
RECURSIVE ConditionalThen(_, _, _, _, _, _, _)
RECURSIVE AssumptionRules(_, _, _, _, _, _, _, _)
RECURSIVE AssumptionLoop(_, _, _, _, _, _, _)

\* _apply_single_rule_with_question_override: composite/processor.py 176-214
_apply_single_rule_with_question_override(reg, sub_rule, qid, sub, outs, k) ==
    LET modified_rule == model_copy(sub_rule, qid).copy
        r == Dispatch(reg, modified_rule, sub, outs, k)
    IN  IF r.st # "val" THEN r
        ELSE IF r.res.t = "list"
        THEN IF r.res.ds = <<>> THEN Val(NoneR, r.k) ELSE Val(One(r.res.ds[1]), r.k)
        ELSE r

\* process_composite 70-76: the loop over rule.rules, from sub-rule i on
CompositeSubs(reg, rule, sub, outs, k, i, acc) ==
    IF i > Len(rule.rules) THEN Val(ListR(acc), k)
    ELSE LET a == _apply_single_rule_with_question_override(
                      reg, rule.rules[i], rule.question_id, sub, outs, k)
         IN  IF a.st # "val" THEN a
             ELSE CompositeSubs(reg, rule, sub, outs, a.k, i + 1,
                                IF a.res.t = "none" THEN acc ELSE acc \o a.res.ds)

RECURSIVE WeightedSum(_, _, _)
\* sum of value * weight over the zipped lists; field f is "p" or "m"
WeightedSum(ds, ws, f) ==
    IF ds = <<>> THEN 0
    ELSE (IF f = "p" THEN ds[1].points_awarded ELSE ds[1].max_points) * ws[1]
         + WeightedSum(Tail(ds), Tail(ws), f)

\* process_composite 78-173: the aggregation of the sub-results.  Weights are
\* held in percent (they sum to 100), the threshold in percent as well.
CompositeAggregate(rule, sub, ds, k) ==
    LET ans == AnswerOf(sub, rule.question_id)
    IN  IF ds = <<>> THEN Val(ListR(<<>>), k)
        ELSE IF rule.mode = "AND"
        THEN LET all_passed == \A i \in 1..Len(ds) : ds[i].is_correct
             IN  Val(ListR(<<GradeDetail(rule.question_id, ans, NoneStr,
                                         IF all_passed THEN SumPoints(ds) ELSE 0,
                                         SumMax(ds), all_passed, rule.type,
                                         IF all_passed THEN "All criteria passed"
                                         ELSE "AND mode: criteria failed")>>), k)
        ELSE IF rule.mode = "OR"
        THEN LET min_passing == IF rule.min_passing.t = "none" \/ rule.min_passing.v = 0
                                THEN 1 ELSE rule.min_passing.v
                 passed == CountCorrect(ds) >= min_passing
             IN  Val(ListR(<<GradeDetail(rule.question_id, ans, NoneStr,
                                         IF passed THEN MaxPointsAwarded(ds) ELSE 0,
                                         MaxMaxPoints(ds), passed, rule.type,
                                         IF passed THEN "OR mode: criteria passed"
                                         ELSE "OR mode: not enough passed")>>), k)
        ELSE IF rule.mode = "WEIGHTED"
        THEN IF rule.weights = <<>> \/ Len(rule.weights) # Len(ds)
             THEN Exc(ValueErrorK, k)
             ELSE LET wp == WeightedSum(ds, rule.weights, "p")
                      wm == WeightedSum(ds, rule.weights, "m")
                  IN  Val(ListR(<<GradeDetail(rule.question_id, ans, NoneStr,
                                              wp \div 100, wm \div 100,
                                              wp * 100 >= wm * rule.correctness_threshold,
                                              rule.type, "Weighted score")>>), k)
        ELSE Val(ListR(ds), k)

process_composite(reg, rule, sub, outs, k) ==
    LET r == CompositeSubs(reg, rule, sub, outs, k, 1, <<>>)
    IN  IF r.st # "val" THEN r ELSE CompositeAggregate(rule, sub, r.res.ds, r.k)

RECURSIVE RuleAfter(_)
\* the rule object once its processor has come back.  process_composite
\* touches its sub-rules through model_copy only (70-73); the copy of a
\* composite sub-rule shares its rules list with the original, so what its
\* evaluation does to that list's elements is done to the stored ones.
RuleAfter(rule) ==
    IF rule.type = "COMPOSITE"
    THEN [rule EXCEPT !.rules =
             [i \in DOMAIN rule.rules |->
                 LET m == model_copy(rule.rules[i], rule.question_id)
                 IN  IF m.self.type = "COMPOSITE"
                     THEN [m.self EXCEPT !.rules = RuleAfter(m.copy).rules]
                     ELSE m.self]]
    ELSE rule

\* process_conditional 31-53: one boolean per guard, from guard i on.
\* if_rules is the dict in insertion order: a sequence of [key, rule].
ConditionalGuards(reg, rule, sub, outs, k, i, acc) ==
    IF i > Len(rule.if_rules) THEN Val(acc, k)
    ELSE LET r == Dispatch(reg, rule.if_rules[i].rule, sub, outs, k)
         IN  IF r.st # "val" THEN r
             ELSE ConditionalGuards(reg, rule, sub, outs, r.k, i + 1,
                      Append(acc, \E j \in 1..Len(r.res.ds) : r.res.ds[j].is_correct))

\* process_conditional 65-93: the consequences, from then-rule i on
ConditionalThen(reg, rule, sub, outs, k, i, acc) ==
    IF i > Len(rule.then_rules) THEN Val(acc, k)
    ELSE LET then_rule == [rule.then_rules[i].rule EXCEPT
                               !.question_id = rule.then_rules[i].key]
             r == Dispatch(reg, then_rule, sub, outs, k)
         IN  IF r.st # "val" THEN r
             ELSE ConditionalThen(reg, rule, sub, outs, r.k, i + 1, acc \o r.res.ds)

\* ConditionMet that lets every aggregate pass
ConditionMet_always(if_aggregation, condition_results) == TRUE

\* ConditionMet with any() in both modes
ConditionMet_any(if_aggregation, condition_results) ==
    \E i \in 1..Len(condition_results) : condition_results[i]

\* process_conditional 55-59
ConditionMet(if_aggregation, condition_results) ==
    IF if_aggregation = "AND"
    THEN (\A i \in 1..Len(condition_results) : condition_results[i])
         /\ Len(condition_results) > 0
    ELSE \E i \in 1..Len(condition_results) : condition_results[i]

process_conditional(reg, rule, sub, outs, k) ==
    LET c == ConditionalGuards(reg, rule, sub, outs, k, 1, <<>>)
    IN  IF c.st # "val" THEN c
        ELSE IF ~ConditionMet(rule.if_aggregation, c.res) THEN Val(NoneR, c.k)
        ELSE LET t == ConditionalThen(reg, rule, sub, outs, c.k, 1, <<>>)
             IN  IF t.st # "val" THEN t
                 ELSE IF t.res = <<>> THEN Val(NoneR, t.k)
                 ELSE Val(ListR(t.res), t.k)

\* _to_detail, _create_failed_detail and _update_feedback of
\* assumption_set/processor.py, for a processor result r that is not a list
\* without elements (that case raises IndexError)
_to_detail(r, sub, subrule, assumption_name, rule_type) ==
    IF r.t = "none"
    THEN GradeDetail(subrule.question_id, AnswerOf(sub, subrule.question_id), NoneStr, 0,
                     IF "max_points" \in DOMAIN subrule THEN subrule.max_points ELSE 1,
                     FALSE, rule_type, "Graded using assumption: " \o assumption_name)
    ELSE [r.ds[1] EXCEPT !.feedback =
              IF r.ds[1].feedback \in {NoneStr, ""}
              THEN "Graded using assumption: " \o assumption_name
              ELSE @ \o "\nGraded using assumption: " \o assumption_name]

IndexErrorK == "IndexError"

\* process_assumption_set 75-106: the rules of one assumption, from rule i on
AssumptionRules(reg, rule, a, sub, outs, k, i, acc) ==
    IF i > Len(a.rules) THEN Val(acc, k)
    ELSE LET subrule == a.rules[i]
         IN  IF "question_id" \notin DOMAIN subrule \/ get_processor_raises(reg, subrule.type)
             THEN AssumptionRules(reg, rule, a, sub, outs, k, i + 1, acc)
             ELSE LET r == Dispatch(reg, subrule, sub, outs, k)
                  IN  IF r.st # "val" THEN r
                      ELSE IF r.res.t = "list" /\ r.res.ds = <<>> THEN Exc(IndexErrorK, r.k)
                      ELSE AssumptionRules(reg, rule, a, sub, outs, r.k, i + 1,
                               Append(acc, _to_detail(r.res, sub, subrule, a.name, rule.type)))

\* process_assumption_set 71-110: assumption_map in insertion order, as a
\* sequence of [name, total, details], from assumption i on
AssumptionLoop(reg, rule, sub, outs, k, i, acc) ==
    IF i > Len(rule.assumptions) THEN Val(acc, k)
    ELSE LET a == rule.assumptions[i]
             r == AssumptionRules(reg, rule, a, sub, outs, k, 1, <<>>)
         IN  IF r.st # "val" THEN r
             ELSE AssumptionLoop(reg, rule, sub, outs, r.k, i + 1,
                      Append(acc, [name |-> a.name, total |-> SumPoints(r.res),
                                   details |-> r.res]))

\* FirstBest that takes the first assumption
FirstBest_first(m) == m[1]

\* max(values, key=total) / min(values, key=total): the first extremal entry
FirstBest(m) ==
    m[CHOOSE i \in 1..Len(m) :
        /\ \A j \in 1..Len(m) : m[j].total <= m[i].total
        /\ \A j \in 1..(i - 1) : m[j].total < m[i].total]

FirstWorst(m) ==
    m[CHOOSE i \in 1..Len(m) :
        /\ \A j \in 1..Len(m) : m[j].total >= m[i].total
        /\ \A j \in 1..(i - 1) : m[j].total > m[i].total]

RECURSIVE Flatten(_)
Flatten(m) == IF m = <<>> THEN <<>> ELSE m[1].details \o Flatten(Tail(m))

RECURSIVE FirstQuestions(_, _)
\* the keys of per_q in insertion order
FirstQuestions(ds, seen) ==
    IF ds = <<>> THEN <<>>
    ELSE IF ds[1].question_id \in seen THEN FirstQuestions(Tail(ds), seen)
    ELSE <<ds[1].question_id>> \o FirstQuestions(Tail(ds), seen \cup {ds[1].question_id})

SelectQuestion(ds, qid) == SelectSeq(ds, LAMBDA d : d.question_id = qid)

\* process_assumption_set 124-168: one averaged detail per question
AveragedDetail(rule, dlist) ==
    LET avg == SumPoints(dlist) \div Len(dlist)
    IN  GradeDetail(dlist[1].question_id, dlist[1].student_answer, dlist[1].correct_answer,
                    avg, MaxMaxPoints(dlist), avg >= MaxMaxPoints(dlist), rule.type,
                    "Averaged across assumptions")

\* process_assumption_set 112-172: selection by mode
AssumptionSelect(rule, m) ==
    IF m = <<>> THEN <<>>
    ELSE IF rule.mode = "best" THEN FirstBest(m).details
    ELSE IF rule.mode = "worst" THEN FirstWorst(m).details
    ELSE IF rule.mode = "average"
    THEN LET all == Flatten(m)
             qs == FirstQuestions(all, {})
         IN  [i \in 1..Len(qs) |-> AveragedDetail(rule, SelectQuestion(all, qs[i]))]
    ELSE FirstBest(m).details

process_assumption_set(reg, rule, sub, outs, k) ==
    LET r == AssumptionLoop(reg, rule, sub, outs, k, 1, <<>>)
    IN  IF r.st # "val" THEN r ELSE Val(ListR(AssumptionSelect(rule, r.res)), r.k)

\* processor = rule_registry.get_processor(rule.type); processor(rule, submission)
Dispatch(reg, rule, sub, outs, k) ==
    IF get_processor_raises(reg, rule.type) THEN Exc(ValueErrorK, k)
    ELSE LET p == get_processor(reg, rule.type)
         IN  CASE p = "process_numeric_range" -> Val(One(process_numeric_range(rule, sub)), k)
               [] p = "process_exact_match" -> Exc(process_exact_match_raises, k)
               [] p = "process_programmable" -> process_programmable(rule, sub, outs, k)
               [] p = "process_composite" -> process_composite(reg, rule, sub, outs, k)
               [] p = "process_conditional" -> process_conditional(reg, rule, sub, outs, k)
               [] p = "process_assumption_set" -> process_assumption_set(reg, rule, sub, outs, k)

----------------------------------------------------------------------------
(* Rule models (models.py and rules/*/model.py) and the inputs of grade()  *)

NumericRangeRule(qid, min_value, max_value, max_points) ==
    [type |-> "NUMERIC_RANGE", question_id |-> qid, min_value |-> min_value,
     max_value |-> max_value, max_points |-> max_points]

ExactMatchRule(qid, max_points) ==
    [type |-> "EXACT_MATCH", question_id |-> qid, max_points |-> max_points]

ProgrammableRule(qid, code, max_points) ==
    [type |-> "PROGRAMMABLE", question_id |-> qid, code |-> code,
     max_points |-> max_points]

\* weights None is <<>>, min_passing is NoneV or Num(n); correctness_threshold
\* in percent
CompositeRule(qid, mode, rules, weights, min_passing) ==
    [type |-> "COMPOSITE", question_id |-> qid, mode |-> mode, rules |-> rules,
     weights |-> weights, min_passing |-> min_passing, correctness_threshold |-> 95]

ConditionalRule(if_rules, if_aggregation, then_rules) ==
    [type |-> "CONDITIONAL", if_rules |-> if_rules,
     if_aggregation |-> if_aggregation, then_rules |-> then_rules]

Assumption(name, rules) == [name |-> name, rules |-> rules]

AssumptionSetRule(assumptions, mode) ==
    [type |-> "ASSUMPTION_SET", assumptions |-> assumptions, mode |-> mode]

Submission(student_id, answers) == [student_id |-> student_id, answers |-> answers]

\* StudentResult with a full percentage for a student without max_points
StudentResult_full_when_empty(student_id, details) ==
    [student_id |-> student_id,
     total_points |-> SumPoints(details),
     max_points |-> SumMax(details),
     percentage |-> IF SumMax(details) > 0
                    THEN (SumPoints(details) * 100) \div SumMax(details) ELSE 100,
     grade_details |-> details]

\* core.py 204-216; percentage is kept as the whole part of
\* total_points / max_points * 100
StudentResult(student_id, details) ==
    [student_id |-> student_id,
     total_points |-> SumPoints(details),
     max_points |-> SumMax(details),
     percentage |-> IF SumMax(details) > 0
                    THEN (SumPoints(details) * 100) \div SumMax(details) ELSE 0,
     grade_details |-> details]

\* the rules the rubrics of the model are made of
R_range == NumericRangeRule("q1", 4, 6, 2)
R_exact == ExactMatchRule("q2", 1)
P(code) == ProgrammableRule("q1", code, 2)

\* a rule object whose type has no registration (built without validation)
R_unknown == [type |-> "INVALID_TYPE", question_id |-> "q1", max_points |-> 1]

R_and == CompositeRule("q1", "AND", <<R_range, P(S_full)>>, <<>>, NoneV)
R_or == CompositeRule("q1", "OR", <<P(S_nonnumeric), P(S_none)>>, <<>>, NoneV)
R_weighted == CompositeRule("q1", "WEIGHTED", <<P(S_half), R_range>>, <<50, 50>>, NoneV)
R_cond == ConditionalRule(<<[key |-> "q1", rule |-> R_range]>>, "AND",
                          <<[key |-> "q2", rule |-> P(S_full)]>>)
R_assume == AssumptionSetRule(<<Assumption("a", <<P(S_half)>>),
                                Assumption("b", <<R_range, P(S_negative)>>)>>, "best")

\* composites whose sub-rules were put in place without validation
\* (model_construct, or rule.rules assigned to): R_cond yields None when its
\* guard fails
R_and_cond == CompositeRule("q1", "AND", <<R_cond>>, <<>>, NoneV)
R_or_cond == CompositeRule("q1", "OR", <<R_cond, R_range>>, <<>>, NoneV)
R_weighted_cond == CompositeRule("q1", "WEIGHTED", <<R_cond, R_range>>, <<50, 50>>, NoneV)

\* sub-rules authored against q2 inside composites that target q1
R_nested ==
    CompositeRule("q1", "AND",
        <<CompositeRule("q2", "OR", <<NumericRangeRule("q2", 4, 6, 2),
                                      ProgrammableRule("q2", S_full, 2)>>, <<>>, NoneV),
          NumericRangeRule("q2", 4, 6, 1)>>, <<>>, NoneV)

\* OR over two ranges, with min_passing None or given
OrRule(qid, min_passing) ==
    CompositeRule(qid, "OR", <<R_range, NumericRangeRule("q1", 4, 8, 3)>>, <<>>, min_passing)

\* conditional rules with two guards; the consequence grades q2
R_then == NumericRangeRule("q2", 4, 8, 1)
R_high == NumericRangeRule("q1", 7, 9, 1)
Guarded(if_rules, if_aggregation) ==
    ConditionalRule(if_rules, if_aggregation, <<[key |-> "q2", rule |-> R_then]>>)
R_cond_two(if_aggregation) ==
    Guarded(<<[key |-> "q1", rule |-> R_range], [key |-> "q3", rule |-> R_high]>>,
            if_aggregation)
\* the second guard runs a script whatever the first guard gave
R_cond_script ==
    Guarded(<<[key |-> "q1", rule |-> R_high], [key |-> "q3", rule |-> P(S_full)]>>, "AND")
\* guards whose result is a list (a composite) and None (a conditional put in
\* place without validation), and no guard at all
R_cond_list ==
    Guarded(<<[key |-> "q1", rule |-> OrRule("q1", NoneV)],
              [key |-> "q3", rule |-> Guarded(<<[key |-> "q1", rule |-> R_high]>>, "AND")]>>,
            "OR")
R_cond_none == Guarded(<<>>, "AND")
\* a guard keyed under q1 whose own question_id is q2, the question the
\* consequence grades: the key sets {q1} and {q2} are disjoint
R_cond_misfiled ==
    Guarded(<<[key |-> "q1", rule |-> NumericRangeRule("q2", 6, 8, 1)]>>, "AND")

\* assumption sets over range rules: alice scores 2 under "a" and 4 under "b"
R_assume_mode(mode) ==
    AssumptionSetRule(<<Assumption("a", <<R_range>>),
                        Assumption("b", <<NumericRangeRule("q1", 4, 8, 3), R_then>>)>>, mode)
\* one rule per assumption on q1, as in test_mode_average
R_average ==
    AssumptionSetRule(<<Assumption("a", <<NumericRangeRule("q1", 4, 6, 4)>>),
                        Assumption("b", <<NumericRangeRule("q1", 7, 9, 4)>>)>>, "average")
\* assumption "a" holds two rules on q1
R_average_twice ==
    AssumptionSetRule(<<Assumption("a", <<NumericRangeRule("q1", 4, 6, 3), R_high>>),
                        Assumption("b", <<NumericRangeRule("q1", 4, 8, 3)>>)>>, "average")

Rubrics ==
    {<<>>,
     <<R_range>>,
     <<R_exact, R_range>>,
     <<R_unknown, R_range>>,
     <<P(S_blank), R_range>>,
     <<P(S_big), P(S_full)>>,
     <<P(S_raise), P(S_half)>>,
     <<P(S_loop), R_range>>,
     <<P(S_loop_catch), R_range>>,
     <<P(S_over), P(S_syntax)>>,
     <<P(S_writes), R_range>>,
     <<R_and, P(S_forbidden)>>,
     <<R_or>>,
     <<R_and_cond, R_or_cond>>,
     <<R_weighted_cond>>,
     <<R_nested>>,
     <<OrRule("q1", Num(2)), OrRule("q2", Num(2))>>,
     <<OrRule("q2", NoneV), OrRule("q1", Num(0))>>,
     <<R_weighted>>,
     <<R_cond, R_range>>,
     <<R_cond_two("AND"), R_cond_two("OR")>>,
     <<R_cond_script, R_cond_none>>,
     <<R_cond_list>>,
     <<R_cond_misfiled>>,
     <<R_assume>>,
     <<R_assume_mode("best"), R_assume_mode("worst")>>,
     <<R_average, R_average_twice>>}

MaxSubmissions == 2

Students ==
    <<Submission("alice", [q \in {"q1", "q2"} |-> IF q = "q1" THEN "5" ELSE "7"]),
      Submission("bob", [q \in {"q1"} |-> "x"]),
      Submission("carol", [q \in {"q2"} |-> "5"]),
      Submission("dave", [q \in {"q1"} |-> "7"])>>

SubmissionLists == {SubSeq(Students, 1, n) : n \in 0..Min2(MaxSubmissions, Len(Students))}

\* progress_callback: not given, or a callable that returns, raises an
\* Exception, or raises KeyboardInterrupt/SystemExit
ProgressCallbacks == {"None", "returns", "raises", "interrupts"}

NoInput == [rubric |-> <<>>, submissions |-> <<>>, progress_callback |-> "None"]

----------------------------------------------------------------------------
(* grade() and _grade_single_submission(): core.py                         *)
(* g.pc is the position of grade():                                        *)
(*   "none"      grade() is not running                                    *)
(*   "loop"      at the head of the loop over the submissions              *)
(*   "rule"      at the head of the loop over rubric.rules                 *)
(*   "sandbox"   inside a processor, in execute_programmable_rule          *)
(*   "callback"  about to call progress_callback                           *)
(*   "returned"  grade() returned its GradeOutput                          *)
(*   "raised"    an exception left grade()                                 *)
(* g.log, g.calls are the history of the run, for the properties.          *)
(* g.run counts the grade() calls made with these arguments and g.first    *)
(* keeps the results the first one returned.                               *)

NoGrade ==
    [pc |-> "none", i |-> 1, j |-> 1, outs |-> <<>>, all_details |-> <<>>,
     results |-> <<>>, exc |-> NoExc, log |-> <<>>, calls |-> <<>>,
     callbacks |-> <<>>, restore_failed |-> FALSE, rlimit0 |-> <<0, 0>>,
     run |-> 1, first |-> <<>>]

KeyboardInterruptK == "KeyboardInterrupt"
ValidationErrorK == "ValidationError"

\* ExceptClause with its last clause re-raising instead of building a detail
ExceptClause_reraising(e) ==
    IF e = ValidationErrorK THEN "Validation error"
    ELSE IF e \in {SandboxExecutionError, SandboxTimeoutError} THEN "Script error"
    ELSE IF e = ValueErrorK THEN "Error"
    ELSE "raise"

\* the except clauses of _grade_single_submission (144-202): the prefix of the
\* feedback of the zero-point detail, or "raise" when the exception is re-raised
ExceptClause(e) ==
    IF e = ValidationErrorK THEN "Validation error"
    ELSE IF e \in {SandboxExecutionError, SandboxTimeoutError} THEN "Script error"
    ELSE IF e = ValueErrorK THEN "Error"
    ELSE IF e \in {KeyboardInterruptK, "SystemExit"} THEN "raise"
    ELSE "Unexpected error"

\* the GradeDetail built by an except clause
ErrorDetail(rule, e) ==
    GradeDetail(IF "question_id" \in DOMAIN rule THEN rule.question_id ELSE "unknown",
                NoneStr, NoneStr, 0,
                IF "max_points" \in DOMAIN rule THEN rule.max_points ELSE 0,
                FALSE, rule.type, ExceptClause(e))

LogEntry(i, j, e, added) ==
    [submission |-> i, rule |-> j, exc |-> e, added |-> added,
     restore_failed |-> g.restore_failed, outs |-> g.outs]

CurrentRule == inp.rubric[g.j]
\* CurrentSubmission taken from the end of the list
CurrentSubmission_reversed == inp.submissions[Len(inp.submissions) + 1 - g.i]

CurrentSubmission == inp.submissions[g.i]
CurrentEval == Dispatch(registry, CurrentRule, CurrentSubmission, g.outs, 1)

InRule ==
    /\ g.pc = "rule"
    /\ pc = "idle"
    /\ g.j <= Len(inp.rubric)

\* all_details carried over from the submission graded before
all_details_kept(previous) == previous

\* core.py 121: all_details: list[GradeDetail] = [], a new list in every
\* call of _grade_single_submission whatever the call before left
all_details_new(previous) == <<>>

\* core.py 82-84: the next submission, or 99-107: return GradeOutput
grade_loop ==
    /\ g.pc = "loop"
    /\ IF g.i <= Len(inp.submissions)
       THEN g' = [g EXCEPT !.pc = "rule", !.j = 1,
                           !.all_details = all_details_new(@), !.outs = <<>>]
       ELSE g' = [g EXCEPT !.pc = "returned"]
    /\ UNCHANGED <<env, handler, alarm, rlimit, pc, call, loc, ret, hist, ncalls, registry, regcall, made, inp>>

\* core.py 128-131 up to the processor's call of execute_programmable_rule
\* (processor.py 70-76), made with the default limits
rule_calls_sandbox ==
    /\ InRule
    /\ CurrentEval.st = "need"
    /\ StartCall(CurrentEval.req.script, CurrentSubmission.answers,
                 CurrentEval.req.question_id, CurrentEval.req.answer,
                 DEFAULT_TIMEOUT_MS, DEFAULT_MEMORY_MB,
                 FALSE, "process_programmable")
    /\ g' = [g EXCEPT !.pc = "sandbox",
                      !.calls = Append(@, [handler |-> handler, alarm |-> alarm,
                                           rlimit |-> rlimit])]
    /\ UNCHANGED <<env, handler, alarm, rlimit, registry, regcall, made, inp>>

\* execute_programmable_rule returns or raises into process_programmable.
\* The dict passed as student_answers is submission.answers itself
\* (processor.py 44): the submission holds whatever the call left in it.
sandbox_returns ==
    /\ g.pc = "sandbox"
    /\ pc = "epr_done"
    /\ call.caller = "process_programmable"
    /\ pc' = "idle"
    /\ g' = [g EXCEPT !.pc = "rule", !.outs = Append(@, ret),
                      !.restore_failed = @ \/ hist.restore_failed]
    /\ inp' = [inp EXCEPT !.submissions[g.i].answers = call.student_answers]
    /\ UNCHANGED <<env, handler, alarm, rlimit, call, loc, ret, hist, ncalls, registry, regcall, made>>

\* core.py 131-142: the processor returned None, a GradeDetail or a list
rule_returns ==
    /\ InRule
    /\ CurrentEval.st = "val"
    /\ g' = [g EXCEPT !.j = @ + 1, !.outs = <<>>, !.restore_failed = FALSE,
                      !.all_details = @ \o CurrentEval.res.ds,
                      !.log = Append(@, LogEntry(g.i, g.j, NoExc, CurrentEval.res.ds))]
    /\ inp' = [inp EXCEPT !.rubric[g.j] = RuleAfter(@)]
    /\ UNCHANGED <<env, handler, alarm, rlimit, pc, call, loc, ret, hist, ncalls, registry, regcall, made>>

\* core.py 144-202: get_processor or the processor raised
rule_raises ==
    /\ InRule
    /\ CurrentEval.st = "exc"
    /\ IF ExceptClause(CurrentEval.exc) = "raise"
       THEN g' = [g EXCEPT !.pc = "raised", !.exc = CurrentEval.exc]
       ELSE g' = [g EXCEPT !.j = @ + 1, !.outs = <<>>, !.restore_failed = FALSE,
                      !.all_details = Append(@, ErrorDetail(CurrentRule, CurrentEval.exc)),
                      !.log = Append(@, LogEntry(g.i, g.j, CurrentEval.exc,
                                         <<ErrorDetail(CurrentRule, CurrentEval.exc)>>))]
    /\ inp' = [inp EXCEPT !.rubric[g.j] = RuleAfter(@)]
    /\ UNCHANGED <<env, handler, alarm, rlimit, pc, call, loc, ret, hist, ncalls, registry, regcall, made>>

\* Ctrl-C while a rule is being applied: the processor raises
\* KeyboardInterrupt, which core.py 186-188 re-raises
keyboard_interrupt ==
    /\ InRule
    /\ ExceptClause(KeyboardInterruptK) = "raise"
    /\ g' = [g EXCEPT !.pc = "raised", !.exc = KeyboardInterruptK]
    /\ UNCHANGED <<env, handler, alarm, rlimit, pc, call, loc, ret, hist, ncalls, registry, regcall, made, inp>>

\* core.py 204-216 and 85: totals of the submission, results.append
submission_graded ==
    /\ g.pc = "rule"
    /\ pc = "idle"
    /\ g.j > Len(inp.rubric)
    /\ g' = [g EXCEPT !.results = Append(@, StudentResult(CurrentSubmission.student_id,
                                                           g.all_details)),
                      !.pc = IF inp.progress_callback # "None" THEN "callback" ELSE "loop",
                      !.i = IF inp.progress_callback # "None" THEN @ ELSE @ + 1]
    /\ UNCHANGED <<env, handler, alarm, rlimit, pc, call, loc, ret, hist, ncalls, registry, regcall, made, inp>>

\* the try statement of core.py 94-97 letting every exception through
AfterCallback_uncaught(outcome) ==
    IF outcome \in {"raises", "interrupts"} THEN "raised" ELSE "loop"

\* the try statement of core.py 94-97: "except Exception" logs and drops
\* what the callback raised; KeyboardInterrupt and SystemExit are not
\* Exceptions and leave grade()
AfterCallback(outcome) ==
    IF outcome = "interrupts" THEN "raised" ELSE "loop"

\* core.py 92-97: progress_callback(i, len(submissions)).  g.callbacks keeps
\* the arguments of each invocation, how many results and rule applications
\* there were when it was made, and whether what it raised left grade().
progress_callback ==
    /\ g.pc = "callback"
    /\ g' = [g EXCEPT !.callbacks =
                          Append(@, [current |-> g.i, total |-> Len(inp.submissions),
                                     graded |-> Len(g.results), applied |-> Len(g.log),
                                     propagated |->
                                         AfterCallback(inp.progress_callback) = "raised"]),
                      !.pc = AfterCallback(inp.progress_callback),
                      !.exc = IF AfterCallback(inp.progress_callback) = "raised"
                              THEN KeyboardInterruptK ELSE @,
                      !.i = @ + 1]
    /\ UNCHANGED <<env, handler, alarm, rlimit, pc, call, loc, ret, hist, ncalls, registry, regcall, made, inp>>

RECURSIVE HasProgrammable(_)
\* the rule is, or holds at some depth, a programmable rule
HasProgrammable(rule) ==
    CASE rule.type = "PROGRAMMABLE" -> TRUE
      [] rule.type = "COMPOSITE" ->
            \E i \in 1..Len(rule.rules) : HasProgrammable(rule.rules[i])
      [] rule.type = "CONDITIONAL" ->
            \/ \E i \in 1..Len(rule.if_rules) : HasProgrammable(rule.if_rules[i].rule)
            \/ \E i \in 1..Len(rule.then_rules) : HasProgrammable(rule.then_rules[i].rule)
      [] rule.type = "ASSUMPTION_SET" ->
            \E a \in 1..Len(rule.assumptions) :
                \E i \in 1..Len(rule.assumptions[a].rules) :
                    HasProgrammable(rule.assumptions[a].rules[i])
      [] OTHER -> FALSE

ScriptFree(rubric) == \A j \in 1..Len(rubric) : ~HasProgrammable(rubric[j])

\* grade() is called again with the same rubric and submissions, in the
\* process as the first call left it (core.py 80: results = []).  The
\* repeated call is followed for the rubrics that run no script.
grade_again ==
    /\ g.pc = "returned"
    /\ g.run < MaxRuns
    /\ ScriptFree(inp.rubric)
    /\ g' = [NoGrade EXCEPT !.pc = "loop", !.rlimit0 = g.rlimit0, !.run = g.run + 1,
                            !.first = IF g.run = 1 THEN g.results ELSE g.first]
    /\ UNCHANGED <<env, handler, alarm, rlimit, pc, call, loc, ret, hist, ncalls, registry, regcall, made, inp>>

Grade ==
    \/ grade_again
    \/ grade_loop
    \/ rule_calls_sandbox
    \/ sandbox_returns
    \/ rule_returns
    \/ rule_raises
    \/ keyboard_interrupt
    \/ submission_graded
    \/ progress_callback

----------------------------------------------------------------------------
(* Direct use of the sandbox, as the test-suite and other callers make it:  *)
(* execute_programmable_rule(script, ..., timeout_ms, memory_mb, strict).   *)

LowLimitMB == 16       \* a hard RLIMIT_AS below the default ceiling

HostRoot == [dockerenv |-> FALSE, env_vars |-> FALSE, cgroup |-> "host", privileged |-> TRUE]
HostUser == [HostRoot EXCEPT !.privileged = FALSE]
HostNoProc == [HostUser EXCEPT !.cgroup = "unreadable"]
Docker == [HostUser EXCEPT !.dockerenv = TRUE]
Kubernetes == [HostUser EXCEPT !.env_vars = TRUE]
CgroupContainer == [HostUser EXCEPT !.cgroup = "container"]

Envs == {HostRoot, HostUser, HostNoProc, Docker, Kubernetes, CgroupContainer}

InitialLimits ==
    {<<RLIM_INFINITY, RLIM_INFINITY>>,
     <<MemoryBytes(LowLimitMB), MemoryBytes(LowLimitMB)>>}

TimeoutChoices == {0, 100, 501, 1000, 1999, DEFAULT_TIMEOUT_MS}
MemoryChoices == {0, DEFAULT_MEMORY_MB}

ProcessInit ==
    /\ env \in Envs
    /\ handler = SIG_DFL
    /\ alarm = 0
    /\ rlimit \in InitialLimits
    /\ call = NoCall
    /\ loc = NoLoc
    /\ ret = NoRet
    /\ hist = NewHist(handler, rlimit)
    /\ ncalls = 0
    /\ regcall = NoRegCall
    /\ made = NoMade

SandboxInit ==
    /\ ProcessInit
    /\ pc = "idle"
    /\ registry = StandardRegistry
    /\ inp = NoInput
    /\ g = NoGrade

DirectCall ==
    /\ pc = "idle"
    /\ ncalls < MaxCalls
    /\ \E s \in Scripts, t \in TimeoutChoices, m \in MemoryChoices, strict \in BOOLEAN :
          StartCall(s, [q \in {"Q1"} |-> "test"], "Q1", "test", t, m, strict, "direct")
    /\ UNCHANGED <<env, handler, alarm, rlimit, registry, regcall, made, inp, g>>

DirectReturn ==
    /\ pc = "epr_done"
    /\ call.caller = "direct"
    /\ pc' = "idle"
    /\ UNCHANGED <<env, handler, alarm, rlimit, call, loc, ret, hist, ncalls, registry, regcall, made, inp, g>>

SandboxNext ==
    \/ DirectCall
    \/ DirectReturn
    \/ Sandbox

SandboxSpec == SandboxInit /\ [][SandboxNext]_vars

----------------------------------------------------------------------------
(* The registry from the moment the class is defined: registrations only   *)

RegistryInit ==
    /\ ProcessInit
    /\ pc = "idle"
    /\ registry = EmptyRegistry
    /\ inp = NoInput
    /\ g = NoGrade

RegistryNext == register

RegistrySpec == RegistryInit /\ [][RegistryNext]_vars

----------------------------------------------------------------------------
(* Rule construction: ConditionalRule(...) calls                           *)

ConstructInit ==
    /\ ProcessInit
    /\ pc = "idle"
    /\ registry = StandardRegistry
    /\ inp = NoInput
    /\ g = NoGrade

ConstructNext == construct_conditional

ConstructSpec == ConstructInit /\ [][ConstructNext]_vars

----------------------------------------------------------------------------
(* grade(rubric, submissions, progress_callback) in a fresh process        *)

Init ==
    /\ ProcessInit
    /\ pc = "idle"
    /\ registry = StandardRegistry
    /\ inp \in [rubric : Rubrics, submissions : SubmissionLists,
                progress_callback : ProgressCallbacks]
    /\ g = [NoGrade EXCEPT !.pc = "loop", !.rlimit0 = rlimit]

Next ==
    \/ Grade
    \/ Sandbox

Spec == Init /\ [][Next]_vars


----------------------------------------------------------------------------
(* Properties                                                              *)

RECURSIVE AddedBy(_, _)
\* the details the log records for submission i, in order
AddedBy(log, i) ==
    IF log = <<>> THEN <<>>
    ELSE (IF log[1].submission = i THEN log[1].added ELSE <<>>) \o AddedBy(Tail(log), i)

\* C1: errors in one rule do not stop grading.  Whenever get_processor or a
\* processor raised an exception other than KeyboardInterrupt/SystemExit, the
\* rule contributed exactly one GradeDetail with 0 points and is_correct
\* false; an exception leaves grade() only if it is KeyboardInterrupt or
\* SystemExit; and when grade() has returned there is exactly one
\* StudentResult per submission, in order, every rule of the rubric has been
\* applied to every submission, and each result holds what its rules added.
C1_ErrorsBecomeZeroDetails ==
    /\ \A n \in 1..Len(g.log) :
          g.log[n].exc # NoExc =>
              /\ Len(g.log[n].added) = 1
              /\ g.log[n].added[1].points_awarded = 0
              /\ ~g.log[n].added[1].is_correct
    /\ g.pc = "raised" => g.exc \in {KeyboardInterruptK, "SystemExit"}
    /\ g.pc = "returned" =>
          /\ Len(g.results) = Len(inp.submissions)
          /\ Len(g.log) = Len(inp.submissions) * Len(inp.rubric)
          /\ \A n \in 1..Len(g.log) :
                /\ g.log[n].submission = ((n - 1) \div Len(inp.rubric)) + 1
                /\ g.log[n].rule = ((n - 1) % Len(inp.rubric)) + 1
          /\ \A i \in 1..Len(g.results) :
                /\ g.results[i].student_id = inp.submissions[i].student_id
                /\ g.results[i].grade_details = AddedBy(g.log, i)

\* a run that returned although the first rule raised for the first student:
\* the second rule and the second student were graded all the same
C1_Witness ==
    /\ g.pc = "returned"
    /\ Len(inp.submissions) = 2
    /\ Len(g.log) = 4
    /\ g.log[1].exc = ImportErrorK
    /\ g.log[2].exc = NoExc
    /\ g.log[2].added # <<>>

\* C2 (as claimed): once execute_programmable_rule has exited, no alarm is
\* pending and the SIGALRM handler is the one installed before entry.
C2_Claim ==
    pc = "epr_done" => (alarm = 0 /\ handler = hist.entry_handler)

\* C3 (as claimed): whenever memory_limit changed RLIMIT_AS on entry, the
\* limit equals its pre-entry value once execute_programmable_rule has exited.
C3_Claim ==
    (pc = "epr_done" /\ hist.limit_changed) => rlimit = hist.entry_rlimit

\* C4 (as claimed): a failure to restore the memory ceiling is never absorbed:
\* no rule is completed, with details added to the submission, after the
\* restore failed in one of its script runs.
C4_Claim ==
    \A n \in 1..Len(g.log) : ~g.log[n].restore_failed

\* C5 (as claimed): a script that loops without bound is always ended by the
\* deadline: while such a script is running, the deadline signal is still
\* pending (it never runs on with nothing left to interrupt it).
C5_Claim ==
    (pc = "exec" /\ call.script.run \in {"loop", "loop_catch"}) => alarm > 0

\* C6 (as claimed): while the script runs under time_limit, the interrupt was
\* armed to fire less than 2 x timeout_ms after the start and not before
\* timeout_ms.
C6_Claim ==
    pc = "exec" =>
        /\ hist.armed * 1000 < 2 * call.timeout_ms
        /\ hist.armed * 1000 >= call.timeout_ms

OutsideContainer == ~env.dockerenv /\ ~env.env_vars /\ env.cgroup # "container"

\* C7: outside a container, when the ceiling could not be applied: in strict
\* mode the script is never executed and the call raises
\* SandboxExecutionError; in non-strict mode the script is executed (unless
\* the deadline signal arrives before it starts) with RLIMIT_AS untouched, a
\* script that finishes before the deadline has its extracted result
\* returned, and exit makes no further rlimit call.
C7_CeilingNotApplicable ==
    (OutsideContainer /\ hist.set_failed) =>
        /\ rlimit = hist.entry_rlimit
        /\ hist.rlimit_ops = 2
        /\ call.strict_limits =>
              /\ ~hist.executed
              /\ pc = "epr_done" => ret = Raised(SandboxExecutionError)
        /\ ~call.strict_limits =>
              /\ (pc \in {"tl_exit", "ml_exit", "epr_exit", "epr_done"}
                  /\ hist.fired # "tl_armed") => hist.executed
              /\ (pc = "epr_done" /\ call.script.run = "finish" /\ hist.fired = "no"
                  /\ _extract_and_validate_results(call.script).exc = NoExc) =>
                     ret = Returned(_extract_and_validate_results(call.script).points,
                                    _extract_and_validate_results(call.script).feedback)

\* a non-strict call whose ceiling could not be applied returned a result
C7_Witness ==
    /\ OutsideContainer
    /\ hist.set_failed
    /\ ~call.strict_limits
    /\ hist.executed
    /\ pc = "epr_done"
    /\ ret.kind = "return"

\* the strict counterpart: the call raised without running the script
C7_WitnessStrict ==
    /\ OutsideContainer
    /\ hist.set_failed
    /\ call.strict_limits
    /\ pc = "epr_done"
    /\ ret = Raised(SandboxExecutionError)

\* C8: inside a container a call makes no getrlimit/setrlimit call and leaves
\* RLIMIT_AS as it was, at every point of the call; the deadline is installed
\* while the script runs and after exit no alarm is pending, the handler
\* being the pre-entry one unless the signal was delivered inside time_limit
\* itself (the race of C2, which is the same outside a container).
C8_ContainerSkipsCeiling ==
    (env.dockerenv \/ env.env_vars \/ env.cgroup = "container") =>
        /\ hist.rlimit_ops = 0
        /\ rlimit = hist.entry_rlimit
        /\ ~hist.limit_changed /\ ~hist.set_failed /\ ~hist.restore_failed
        /\ pc = "exec" =>
              /\ handler = TimeoutHandler
              /\ hist.armed = AlarmSeconds(call.timeout_ms)
              /\ (hist.fired = "no" => alarm = hist.armed)
        /\ pc = "epr_done" =>
              /\ alarm = 0
              /\ hist.fired \in {"no", "exec"} => handler = hist.entry_handler

\* a script ran to its end in a process detected by its cgroup file only
C8_Witness ==
    /\ env.cgroup = "container"
    /\ ~env.dockerenv
    /\ ~env.env_vars
    /\ hist.executed
    /\ hist.armed > 0
    /\ pc = "epr_done"
    /\ ret.kind = "return"

\* C9 (as claimed): every script of a grade() run is started with nothing of
\* an earlier script still installed: no alarm pending, the SIGALRM handler
\* and RLIMIT_AS as they were when grade() was called.
C9_Claim ==
    \A n \in 1..Len(g.calls) :
        /\ g.calls[n].alarm = 0
        /\ g.calls[n].handler = SIG_DFL
        /\ g.calls[n].rlimit = g.rlimit0

\* what the rule being applied evaluates to once the pending call has delivered ret
EvalAfterReturn ==
    Dispatch(registry, CurrentRule, CurrentSubmission, Append(g.outs, ret), 1)

FirstFailedCheck ==
    IF call.timeout_ms <= 0 \/ call.memory_mb <= 0 THEN "ValueError"
    ELSE IF call.script.blank THEN "ValueError"
    ELSE IF call.script.size > SCRIPT_MAX_SIZE_BYTES THEN "ValueError"
    ELSE IF call.script.newlines + 1 > SCRIPT_MAX_LINES THEN "ValueError"
    ELSE IF ~call.script.parses THEN "SandboxExecutionError"
    ELSE IF ~call.script.restricted THEN "SandboxExecutionError"
    ELSE "none"

\* C11: the script of an invocation is executed only if timeout_ms > 0,
\* memory_mb > 0, the script is not blank, is within the size and line
\* ceilings, parses, and compiles without restricted-compilation errors.
\* When one of these checks fails, the invocation raises the error of the
\* first failing check, the script is never executed, and neither the alarm
\* and its handler nor the memory limit were installed or touched.
C11_ChecksBeforeRunning ==
    pc # "idle" =>
        /\ (hist.executed \/ hist.armed > 0 \/ hist.rlimit_ops > 0) => FirstFailedCheck = "none"
        /\ FirstFailedCheck # "none" =>
              /\ ~hist.executed
              /\ pc \in {"epr_enter", "epr_done"}
              /\ alarm = 0
              /\ handler = hist.entry_handler
              /\ rlimit = hist.entry_rlimit
              /\ pc = "epr_done" => ret = Raised(FirstFailedCheck)

\* a script that parses but fails restricted compilation was rejected
C11_Witness ==
    /\ pc = "epr_done"
    /\ call.script.parses
    /\ ~call.script.restricted
    /\ call.timeout_ms > 0
    /\ call.memory_mb > 0
    /\ ret = Raised(SandboxExecutionError)
    /\ ~hist.executed

\* a script with a syntax error called with timeout_ms = 0: the first check decides
C11_WitnessOrder ==
    /\ pc = "epr_done"
    /\ ~call.script.parses
    /\ call.timeout_ms <= 0
    /\ ret = Raised(ValueErrorK)

\* the script of the current call ran to its end undisturbed: the deadline
\* signal was not delivered and the memory limit was restored
RanToEnd ==
    /\ pc = "epr_done"
    /\ hist.executed
    /\ call.script.run = "finish"
    /\ hist.fired = "no"
    /\ ~hist.restore_failed

\* C12 (as claimed): when the script finished with negative points_awarded,
\* the call returns 0 points and a feedback made of the feedback the script
\* set followed by an explanatory note.
C12_Claim ==
    (RanToEnd /\ call.script.points.t = "num" /\ call.script.points.v < 0) =>
        /\ ret.kind = "return"
        /\ ret.points = 0
        /\ \E sep \in {"", " ", "\n"} :
              ret.feedback = call.script.feedback \o sep
                                 \o "Invalid negative points, defaulting to 0"

\* C13 (as claimed): when the script finished with a non-numeric
\* points_awarded, the call returns normally, with 0 points and the script's
\* feedback.
C13_Claim ==
    (RanToEnd /\ call.script.points.t = "str") =>
        /\ ret.kind = "return"
        /\ ret.points = 0
        /\ ret.feedback = call.script.feedback

\* C14: scripts leave the submissions as they were.  At every point of a
\* grade() run every submission is the one grade() was called with, whatever
\* the scripts run so far assigned to student_answers, question_id or answer;
\* and the student_answer recorded by every rule applied so far is the
\* original answer to the detail's question.
C14_AnswersUnchanged ==
    /\ \A i \in 1..Len(inp.submissions) : inp.submissions[i] = Students[i]
    /\ pc \in {"ml_enter", "tl_enter", "tl_armed", "exec", "tl_exit", "ml_exit",
               "epr_exit", "epr_done"} /\ g.pc = "sandbox" =>
           call.student_answers = Students[g.i].answers
    /\ \A n \in 1..Len(g.log) : \A m \in 1..Len(g.log[n].added) :
          LET d == g.log[n].added[m]
          IN  d.student_answer # NoneStr =>
                 d.student_answer = AnswerOf(Students[g.log[n].submission], d.question_id)

\* a script that overwrote its student_answers, question_id and answer has
\* run, and the rule after it has been applied
C14_Witness ==
    /\ g.pc = "returned"
    /\ Len(inp.submissions) > 0
    /\ call.script.writes
    /\ hist.executed
    /\ loc.globals.answer = Overwritten
    /\ loc.globals.student_answers.value # call.student_answers
    /\ Len(g.log) = 2 * Len(inp.submissions)

\* C15 (as claimed): a register call for a rule type that is already
\* registered fails, and the processor and model registered before the call
\* are still the ones get_processor and get_model return.
C15_Claim ==
    regcall.was_registered =>
        /\ regcall.exc # NoExc
        /\ get_processor(registry, regcall.rule_type) = regcall.old_processor
        /\ get_model(registry, regcall.rule_type) = regcall.old_model

----------------------------------------------------------------------------
(* Composite rules: properties of process_composite, stated over the log   *)
(* of the run.                                                              *)

\* the log entries of the applications of composite rules
CompositeEntries ==
    {n \in 1..Len(g.log) : inp.rubric[g.log[n].rule].type = "COMPOSITE"}

\* the composite rule of log entry n and the submission it was applied to
LoggedRule(n) == inp.rubric[g.log[n].rule]
LoggedSubmission(n) == inp.submissions[g.log[n].submission]

\* sub_results of log entry n: what the loop of process_composite (70-76)
\* collected, given the outcomes of the sandbox calls made for that entry
SubResults(n) ==
    CompositeSubs(registry, LoggedRule(n), LoggedSubmission(n), g.log[n].outs, 1, 1, <<>>)

\* every sub-rule of the composite of entry n yielded a result
AllSubRulesYield(n) ==
    /\ SubResults(n).st = "val"
    /\ Len(SubResults(n).res.ds) = Len(LoggedRule(n).rules)

\* C16: a composite in AND mode (the mode the code has for adding up its
\* sub-rules) whose sub-rules all yield a result returns one detail whose
\* points_awarded is the sum of the sub-results' points_awarded and whose
\* max_points is the sum of their max_points, whether or not every
\* sub-result is correct.
C16_Claim ==
    \A n \in CompositeEntries :
        (LoggedRule(n).mode = "AND" /\ AllSubRulesYield(n)) =>
            /\ g.log[n].exc = NoExc
            /\ Len(g.log[n].added) = 1
            /\ g.log[n].added[1].points_awarded = SumPoints(SubResults(n).res.ds)
            /\ g.log[n].added[1].max_points = SumMax(SubResults(n).res.ds)

\* no sub-rule of the composite of entry n yielded a result
NoSubRuleYields(n) ==
    /\ SubResults(n).st = "val"
    /\ SubResults(n).res.ds = <<>>

\* C17: when every sub-rule of a composite yields no result, the evaluation
\* of the composite raises a configuration error: it returns neither an
\* empty result nor a zero score of its own, and the orchestrator records one
\* failure detail (0 points, not correct) for that rule.
C17_Claim ==
    \A n \in CompositeEntries :
        NoSubRuleYields(n) =>
            /\ g.log[n].exc = ValueErrorK
            /\ Len(g.log[n].added) = 1
            /\ g.log[n].added[1] = ErrorDetail(LoggedRule(n), ValueErrorK)

\* some, but not all, sub-rules of the composite of entry n yielded a result
SomeSubRuleSkipped(n) ==
    /\ SubResults(n).st = "val"
    /\ SubResults(n).res.ds # <<>>
    /\ Len(SubResults(n).res.ds) < Len(LoggedRule(n).rules)

\* C18: in every mode, a sub-rule that yields no result is skipped: the
\* evaluation does not become an error, one detail is returned, and it is
\* the aggregation of the sub-results that are there (the missing one adds
\* nothing to max_points and does not count as a failed criterion).
C18_Claim ==
    \A n \in CompositeEntries :
        SomeSubRuleSkipped(n) =>
            LET ds == SubResults(n).res.ds
                d == g.log[n].added[1]
            IN  /\ g.log[n].exc = NoExc
                /\ Len(g.log[n].added) = 1
                /\ LoggedRule(n).mode = "AND" =>
                      /\ d.max_points = SumMax(ds)
                      /\ d.is_correct = (CountCorrect(ds) = Len(ds))
                /\ LoggedRule(n).mode = "OR" =>
                      /\ d.max_points = MaxMaxPoints(ds)
                      /\ d.is_correct = (CountCorrect(ds) >= 1)

RECURSIVE Retargeted(_, _)
\* the rule with every sub-rule, at any depth of composites, authored
\* against question qid
Retargeted(rule, qid) ==
    IF rule.type = "COMPOSITE"
    THEN [rule EXCEPT !.question_id = qid,
                      !.rules = [i \in DOMAIN rule.rules |-> Retargeted(rule.rules[i], qid)]]
    ELSE IF "question_id" \in DOMAIN rule THEN [rule EXCEPT !.question_id = qid]
    ELSE rule

RECURSIVE OnlyComposites(_)
\* the rule is a tree of composites over single-question rules
OnlyComposites(rule) ==
    IF rule.type = "COMPOSITE"
    THEN \A i \in DOMAIN rule.rules : OnlyComposites(rule.rules[i])
    ELSE "question_id" \in DOMAIN rule

\* C19: the sub-rules of a composite, at any depth of composites, are
\* evaluated against the outermost composite's question_id whatever id they
\* were authored with: the evaluation goes exactly as that of the rule with
\* every id rewritten to the outermost one, a script run for it is given
\* that question id and that question's answer, every GradeDetail recorded
\* for the composite carries that id, and the rules stored in the rubric
\* stay as they were authored.
C19_SubRulesRetargeted ==
    /\ (InRule /\ CurrentRule.type = "COMPOSITE") =>
          CurrentEval = Dispatch(registry, Retargeted(CurrentRule, CurrentRule.question_id),
                                 CurrentSubmission, g.outs, 1)
    /\ (g.pc = "sandbox" /\ CurrentRule.type = "COMPOSITE" /\ OnlyComposites(CurrentRule)) =>
          /\ call.question_id = CurrentRule.question_id
          /\ call.answer = AnswerOf(CurrentSubmission, CurrentRule.question_id)
    /\ \A n \in CompositeEntries : \A m \in 1..Len(g.log[n].added) :
          g.log[n].added[m].question_id = LoggedRule(n).question_id
    /\ g.pc # "none" => inp.rubric \in Rubrics

\* the nested composite, authored against q2 inside, was applied to alice:
\* her q1 answer is in range and her q2 answer is not, and both levels passed
C19_Witness ==
    /\ inp.rubric = <<R_nested>>
    /\ Len(g.log) >= 1
    /\ g.log[1].exc = NoExc
    /\ g.log[1].outs # <<>>
    /\ AnswerOf(LoggedSubmission(1), "q2") = "7"
    /\ g.log[1].added = <<GradeDetail("q1", "5", NoneStr, 3, 3, TRUE, "COMPOSITE",
                                      "All criteria passed")>>

\* C20: in OR mode a composite with at least one sub-result returns exactly
\* one detail; when the number of correct sub-results is at least
\* min_passing (1 when min_passing is not given) it awards the largest
\* points_awarded among the sub-results and is correct, otherwise it awards
\* 0 and is not correct; max_points is the largest max_points among the
\* sub-results in both cases.
C20_Claim ==
    \A n \in CompositeEntries :
        (/\ LoggedRule(n).mode = "OR"
         /\ SubResults(n).st = "val"
         /\ SubResults(n).res.ds # <<>>) =>
            LET ds == SubResults(n).res.ds
                min_passing == IF LoggedRule(n).min_passing.t = "none" THEN 1
                               ELSE LoggedRule(n).min_passing.v
                passed == CountCorrect(ds) >= min_passing
            IN  /\ g.log[n].exc = NoExc
                /\ Len(g.log[n].added) = 1
                /\ g.log[n].added[1].is_correct = passed
                /\ g.log[n].added[1].points_awarded =
                       (IF passed THEN MaxPointsAwarded(ds) ELSE 0)
                /\ g.log[n].added[1].max_points = MaxMaxPoints(ds)

----------------------------------------------------------------------------
(* Conditional rules: properties of process_conditional over the log       *)

\* the log entries of the applications of conditional rules
ConditionalEntries ==
    {n \in 1..Len(g.log) : inp.rubric[g.log[n].rule].type = "CONDITIONAL"}

\* the guard booleans of entry n, as the loop of process_conditional (35-53)
\* leaves them, with the number of sandbox outcomes the guards consumed
GuardBooleans(n) ==
    ConditionalGuards(registry, LoggedRule(n), LoggedSubmission(n), g.log[n].outs, 1, 1, <<>>)

\* the aggregated guard of entry n, written out from the booleans
GuardAggregate(n) ==
    LET b == GuardBooleans(n).res
    IN  IF LoggedRule(n).if_aggregation = "AND"
        THEN Len(b) >= 1 /\ \A i \in 1..Len(b) : b[i]
        ELSE \E i \in 1..Len(b) : b[i]

\* C21: when the aggregated guard of a conditional rule is false, no
\* consequence rule is dispatched (no script is run beyond those of the
\* guards) and the rule adds no GradeDetail for the student: no points, no
\* max_points, no zero-point detail.
C21_GuardFalseAddsNothing ==
    \A n \in ConditionalEntries :
        (GuardBooleans(n).st = "val" /\ ~GuardAggregate(n)) =>
            /\ g.log[n].exc = NoExc
            /\ g.log[n].added = <<>>
            /\ GuardBooleans(n).k = Len(g.log[n].outs) + 1
            /\ Len(g.results) >= g.log[n].submission =>
                  LET r == g.results[g.log[n].submission]
                  IN  /\ r.grade_details = AddedBy(g.log, g.log[n].submission)
                      /\ r.max_points = SumMax(r.grade_details)

\* bob fails the guard of R_cond, whose consequence is a programmable rule,
\* and his result is there
C21_Witness ==
    /\ inp.rubric = <<R_cond, R_range>>
    /\ Len(g.results) = 2
    /\ 3 \in ConditionalEntries
    /\ ~GuardAggregate(3)
    /\ g.log[3].added = <<>>
    /\ g.results[2].max_points = R_range.max_points

\* the conditional rule of entry n with its first i guards only
FirstGuards(n, i) == [LoggedRule(n) EXCEPT !.if_rules = SubSeq(@, 1, i)]

\* what the processor of guard i of entry n returned: the guard dispatched
\* after the guards before it took their sandbox outcomes
GuardResult(n, i) ==
    Dispatch(registry, LoggedRule(n).if_rules[i].rule, LoggedSubmission(n), g.log[n].outs,
             ConditionalGuards(registry, FirstGuards(n, i - 1), LoggedSubmission(n),
                               g.log[n].outs, 1, 1, <<>>).k)

\* the boolean of a guard result: false for None, any element correct for a
\* list, is_correct for a single detail
GuardBoolean(r) ==
    CASE r.res.t = "none" -> FALSE
      [] r.res.t = "list" -> \E j \in 1..Len(r.res.ds) : r.res.ds[j].is_correct
      [] r.res.t = "one" -> r.res.ds[1].is_correct

\* C22: every guard rule is dispatched and gives one boolean (false for
\* None, any element correct for a list, is_correct for a single result);
\* the consequences are applied exactly when, with AND, there is at least
\* one guard and every boolean is true, and with OR, some boolean is true.
C22_GuardAggregate ==
    \A n \in ConditionalEntries :
        GuardBooleans(n).st = "val" =>
            /\ Len(GuardBooleans(n).res) = Len(LoggedRule(n).if_rules)
            /\ \A i \in 1..Len(LoggedRule(n).if_rules) :
                  /\ GuardResult(n, i).st = "val"
                  /\ GuardBooleans(n).res[i] = GuardBoolean(GuardResult(n, i))
            /\ g.log[n].exc = NoExc =>
                  g.log[n].added =
                      IF GuardAggregate(n)
                      THEN ConditionalThen(registry, LoggedRule(n), LoggedSubmission(n),
                                           g.log[n].outs, GuardBooleans(n).k, 1, <<>>).res
                      ELSE <<>>

\* alice passes one of two guards: the AND rule adds nothing, the OR rule
\* grades q2
C22_Witness ==
    /\ inp.rubric = <<R_cond_two("AND"), R_cond_two("OR")>>
    /\ Len(g.log) >= 2
    /\ GuardBooleans(1).res = <<TRUE, FALSE>>
    /\ g.log[1].added = <<>>
    /\ Len(g.log[2].added) = 1
    /\ g.log[2].added[1].question_id = "q2"

\* bob fails the first guard of an AND rule and the script of the second
\* guard has run nevertheless
C22_WitnessAllDispatched ==
    /\ inp.rubric = <<R_cond_script, R_cond_none>>
    /\ Len(g.log) >= 1
    /\ GuardBooleans(1).res[1] = FALSE
    /\ Len(g.log[1].outs) = 1
    /\ g.log[1].added = <<>>

----------------------------------------------------------------------------
(* Construction of conditional rules                                       *)

\* C23: ConditionalRule(...) is rejected when the consequence keys share a
\* question id with the guard keys, when there is no guard and when there
\* is no consequence; it succeeds otherwise, so a conditional rule that
\* exists has non-empty, disjoint guard and consequence question sets.
C23_DisjointAtConstruction ==
    made.called =>
        /\ made.exc # NoExc <=>
              \/ Keys(made.if_rules) = {}
              \/ Keys(made.then_rules) = {}
              \/ Keys(made.if_rules) \cap Keys(made.then_rules) # {}
        /\ made.exc # NoExc => made.rule.type = "None"
        /\ made.exc = NoExc =>
              /\ made.rule.type = "CONDITIONAL"
              /\ made.rule.if_rules = made.if_rules
              /\ made.rule.then_rules = made.then_rules
              /\ Keys(made.rule.if_rules) # {}
              /\ Keys(made.rule.then_rules) # {}
              /\ Keys(made.rule.if_rules) \cap Keys(made.rule.then_rules) = {}

\* a construction with guards, consequences and a shared question id failed
C23_Witness ==
    /\ made.called
    /\ Keys(made.if_rules) = {"q1", "q2"}
    /\ Keys(made.then_rules) = {"q2", "q3"}
    /\ made.exc = "ValidationError"

----------------------------------------------------------------------------
(* Assumption sets: properties of process_assumption_set over the log      *)

\* the log entries of assumption-set rules that returned
AssumptionEntries ==
    {n \in 1..Len(g.log) : /\ inp.rubric[g.log[n].rule].type = "ASSUMPTION_SET"
                           /\ g.log[n].exc = NoExc}

\* assumption_map of entry n: [name, total, details] per assumption
AssumptionMap(n) ==
    AssumptionLoop(registry, LoggedRule(n), LoggedSubmission(n), g.log[n].outs, 1, 1, <<>>).res

\* C24: in mode best and worst the details returned are the detail list of
\* one assumption, an assumption's total being the sum of the points of the
\* details of all its rules, and the points of the returned details add up
\* to the largest such total for best and to the smallest for worst.
C24_BestWorst ==
    \A n \in AssumptionEntries :
        LoggedRule(n).mode \in {"best", "worst"} =>
            LET m == AssumptionMap(n)
                total(j) == SumPoints(m[j].details)
            IN  /\ \A j \in 1..Len(m) :
                      /\ m[j].total = total(j)
                      /\ (\A i \in 1..Len(LoggedRule(n).assumptions[j].rules) :
                             LET subrule == LoggedRule(n).assumptions[j].rules[i]
                             IN  /\ "question_id" \in DOMAIN subrule
                                 /\ ~get_processor_raises(registry, subrule.type))
                         => Len(m[j].details) = Len(LoggedRule(n).assumptions[j].rules)
                /\ \E j \in 1..Len(m) : g.log[n].added = m[j].details
                /\ \A j \in 1..Len(m) :
                      IF LoggedRule(n).mode = "best"
                      THEN total(j) <= SumPoints(g.log[n].added)
                      ELSE total(j) >= SumPoints(g.log[n].added)

\* alice under best and worst: the second assumption is the better one
C24_Witness ==
    /\ inp.rubric = <<R_assume_mode("best"), R_assume_mode("worst")>>
    /\ Len(g.log) >= 2
    /\ AssumptionMap(1)[1].total = 2
    /\ AssumptionMap(1)[2].total = 4
    /\ SumPoints(g.log[1].added) = 4
    /\ Len(g.log[1].added) = 2
    /\ SumPoints(g.log[2].added) = 2

\* every detail of every assumption of entry n, in assumption order
AllAssumptionDetails(n) == Flatten(AssumptionMap(n))

\* the assumptions of entry n that produced a detail for question q
AssumptionsFor(n, q) ==
    {j \in 1..Len(AssumptionMap(n)) :
        \E i \in 1..Len(AssumptionMap(n)[j].details) :
            AssumptionMap(n)[j].details[i].question_id = q}

\* C25: in mode average there is exactly one detail per question for which
\* some assumption produced a detail; its points_awarded times the number
\* of assumptions that produced a detail for the question is the sum of the
\* question's points over those assumptions, and its max_points is the
\* largest max_points among those details.
C25_Claim ==
    \A n \in AssumptionEntries :
        LoggedRule(n).mode = "average" =>
            LET all == AllAssumptionDetails(n)
                qs == {all[i].question_id : i \in 1..Len(all)}
                added == g.log[n].added
            IN  /\ Len(added) = Cardinality(qs)
                /\ \A q \in qs :
                      \E i \in 1..Len(added) :
                          /\ added[i].question_id = q
                          /\ added[i].points_awarded * Cardinality(AssumptionsFor(n, q))
                                 = SumPoints(SelectQuestion(all, q))
                          /\ added[i].max_points = MaxMaxPoints(SelectQuestion(all, q))

----------------------------------------------------------------------------
(* grade(): order of processing                                            *)

\* entry n of the log is what applying rule g.log[n].rule of the rubric to
\* submission g.log[n].submission gives
EntryIsOfItsRule(n) ==
    LET e == Dispatch(registry, LoggedRule(n), LoggedSubmission(n), g.log[n].outs, 1)
    IN  \/ /\ e.st = "val"
           /\ g.log[n].exc = NoExc
           /\ g.log[n].added = e.res.ds
        \/ /\ e.st = "exc"
           /\ g.log[n].exc = e.exc
           /\ g.log[n].added = <<ErrorDetail(LoggedRule(n), e.exc)>>

\* C26: submissions are graded one at a time in input order and the rules
\* are applied in rubric order: the log runs through (submission, rule) in
\* lexicographic order without gaps, each entry is the application of that
\* rule to that submission, a submission is begun only when the results of
\* all earlier ones are there, results[i] is the result of submissions[i]
\* and its grade_details are its rules' details in rubric order.
C26_InputAndRubricOrder ==
    /\ \A n \in 1..Len(g.log) :
          /\ g.log[n].submission = ((n - 1) \div Len(inp.rubric)) + 1
          /\ g.log[n].rule = ((n - 1) % Len(inp.rubric)) + 1
          /\ g.log[n].submission <= Len(g.results) + 1
          /\ EntryIsOfItsRule(n)
    /\ g.pc \in {"rule", "sandbox"} =>
          /\ g.i = Len(g.results) + 1
          /\ Len(g.log) = (g.i - 1) * Len(inp.rubric) + (g.j - 1)
    /\ Len(g.results) <= Len(inp.submissions)
    /\ \A i \in 1..Len(g.results) :
          /\ g.results[i].student_id = inp.submissions[i].student_id
          /\ g.results[i].grade_details = AddedBy(g.log, i)
    /\ g.pc = "returned" => Len(g.results) = Len(inp.submissions)

\* two submissions and two rules, graded to the end, each rule leaving a
\* detail for each student
C26_Witness ==
    /\ g.pc = "returned"
    /\ inp.rubric = <<P(S_raise), P(S_half)>>
    /\ Len(g.results) = 2
    /\ Len(g.log) = 4
    /\ \A n \in 1..4 : Len(g.log[n].added) = 1
    /\ g.results[2].student_id = "bob"
    /\ Len(g.results[2].grade_details) = 2

----------------------------------------------------------------------------
(* grade(): the progress callback                                          *)

\* the invocations made so far are the first ones of the sequence
\* (1, N), (2, N), ...: the k-th is made when k results exist and the rules
\* have been applied to k submissions, and nothing it raised left grade()
CallbacksInStep ==
    /\ \A k \in 1..Len(g.callbacks) :
          /\ g.callbacks[k].current = k
          /\ g.callbacks[k].total = Len(inp.submissions)
          /\ g.callbacks[k].graded = k
          /\ g.callbacks[k].applied = k * Len(inp.rubric)
          /\ ~g.callbacks[k].propagated
    /\ Len(g.callbacks) <= Len(g.results)
    /\ Len(g.results) <= Len(g.callbacks) + 1
    /\ g.pc \in {"rule", "sandbox", "loop"} => Len(g.callbacks) = Len(g.results)
    /\ g.pc = "returned" =>
          /\ Len(g.callbacks) = Len(inp.submissions)
          /\ Len(g.results) = Len(inp.submissions)

\* C27 as stated: with a progress callback given, whatever it raises, it is
\* invoked once per submission with (i, N), after submission i is graded and
\* before submission i+1 starts, and grading goes on to return all N results.
C27_Claim ==
    inp.progress_callback # "None" => CallbacksInStep

\* C27, for a callback that returns or raises an Exception: it is invoked
\* once per submission with (i, N), after submission i is graded and before
\* submission i+1 starts; what it raises stops neither the grading nor the
\* later invocations, and all N results are returned.  Without a callback
\* nothing is invoked.
C27_CallbackPerSubmission ==
    /\ inp.progress_callback \in {"returns", "raises"} => CallbacksInStep
    /\ inp.progress_callback = "None" => g.callbacks = <<>>

\* a callback that raises an Exception each time, two submissions, all graded
C27_Witness ==
    /\ inp.progress_callback = "raises"
    /\ Len(inp.submissions) = 2
    /\ inp.rubric # <<>>
    /\ g.pc = "returned"
    /\ Len(g.callbacks) = 2
    /\ g.callbacks[2].current = 2
    /\ Len(g.results) = 2

----------------------------------------------------------------------------
(* grade(): the totals of a StudentResult                                  *)

\* C28: in every StudentResult total_points is the sum of points_awarded
\* and max_points the sum of max_points over exactly its grade_details,
\* which are the details its rules left; percentage is
\* total_points / max_points * 100 (its whole part here) when max_points > 0
\* and 0 when max_points is 0, as for a rubric without rules or whose rules
\* all produced nothing.
C28_TotalsAndPercentage ==
    \A i \in 1..Len(g.results) :
        LET r == g.results[i]
        IN  /\ r.grade_details = AddedBy(g.log, i)
            /\ r.total_points = SumPoints(r.grade_details)
            /\ r.max_points = SumMax(r.grade_details)
            /\ r.max_points > 0 =>
                  /\ r.percentage * r.max_points <= r.total_points * 100
                  /\ r.total_points * 100 < (r.percentage + 1) * r.max_points
            /\ r.max_points = 0 => r.percentage = 0
            /\ r.grade_details = <<>> => r.max_points = 0

\* alice has points and bob has no detail at all, under rules that produce
\* nothing for him
C28_Witness ==
    /\ inp.rubric = <<R_cond_two("AND"), R_cond_two("OR")>>
    /\ Len(g.results) = 2
    /\ g.results[1].max_points > 0
    /\ g.results[1].percentage = 100
    /\ g.results[2].grade_details = <<>>
    /\ g.results[2].percentage = 0

\* a rubric without rules
C28_WitnessNoRules ==
    /\ inp.rubric = <<>>
    /\ Len(g.results) = 2
    /\ g.results[1].max_points = 0
    /\ g.results[1].percentage = 0

----------------------------------------------------------------------------
(* grade(): the result as a function of its arguments                      *)

RECURSIVE DetailsAlone(_, _, _)
\* the details of a submission graded on its own by a script-free rubric,
\* from rule j on
DetailsAlone(rubric, sub, j) ==
    IF j > Len(rubric) THEN <<>>
    ELSE LET e == Dispatch(registry, rubric[j], sub, <<>>, 1)
         IN  (IF e.st = "val" THEN e.res.ds ELSE <<ErrorDetail(rubric[j], e.exc)>>)
             \o DetailsAlone(rubric, sub, j + 1)

\* C29: for a rubric without programmable rules, every result is the one
\* the submission gets when graded on its own (it does not depend on the
\* submissions before it, on the rules applied before, or on an earlier
\* grade() call), and a second grade() call on the same arguments returns
\* the same sequence of StudentResults as the first.
C29_SameResultsAgain ==
    ScriptFree(inp.rubric) =>
        /\ \A i \in 1..Len(g.results) :
              g.results[i] = StudentResult(inp.submissions[i].student_id,
                                           DetailsAlone(inp.rubric, inp.submissions[i], 1))
        /\ g.run > 1 =>
              /\ Len(g.first) = Len(inp.submissions)
              /\ \A i \in 1..Len(g.results) : g.results[i] = g.first[i]
        /\ (g.run > 1 /\ g.pc = "returned") => g.results = g.first

\* the second call has returned, for two students, a rubric of an assumption
\* set and its results
C29_Witness ==
    /\ inp.rubric = <<R_assume_mode("best"), R_assume_mode("worst")>>
    /\ g.run = 2
    /\ g.pc = "returned"
    /\ Len(g.results) = 2
    /\ g.results[1].total_points = 6
    /\ g.first = g.results

\* the conditional rule with every guard authored for the key it is held
\* under in if_rules
GuardsByKey(rule) ==
    [rule EXCEPT !.if_rules =
        [i \in 1..Len(rule.if_rules) |->
            [key |-> rule.if_rules[i].key,
             rule |-> model_copy(rule.if_rules[i].rule, rule.if_rules[i].key).copy]]]

\* the question a guard reads, for a guard that is a single range rule
GuardReads(rule, i) == rule.if_rules[i].rule.question_id

\* C30: each guard of a conditional rule is evaluated against the question
\* id it is keyed under in if_rules, as each consequence is against its key
\* in then_rules: the rule gives what it gives with every guard authored for
\* its key, and no guard reads a question that a consequence grades.
C30_Claim ==
    \A n \in ConditionalEntries :
        LET byKey == Dispatch(registry, GuardsByKey(LoggedRule(n)), LoggedSubmission(n),
                              g.log[n].outs, 1)
        IN  (g.log[n].exc = NoExc /\ byKey.st = "val") =>
                /\ g.log[n].added = byKey.res.ds
                /\ \A i \in 1..Len(LoggedRule(n).if_rules) :
                      LoggedRule(n).if_rules[i].rule.type = "NUMERIC_RANGE" =>
                          (g.log[n].added # <<>> =>
                              GuardReads(LoggedRule(n), i) \notin Keys(LoggedRule(n).then_rules))

============================================================================
